---------------------------- MODULE Spec2Model ----------------------------
(***************************************************************************)
(* A model of the OGR geocoding client (gdal/ogr/ogr_geocoding.cpp):       *)
(* option resolution and session creation, the query-template validator,   *)
(* the URL-keyed response cache, the per-service rate limiter, the request *)
(* executor OGRGeocode() run by several threads, and the XML decoder.      *)
(*                                                                         *)
(* C strings the code inspects character by character (templates, queries, *)
(* e-mails, URLs) are sequences of one-character strings.  Strings the     *)
(* code only compares as a whole (file names, service names, option        *)
(* values) are TLA+ strings.  A C pointer that may be NULL is a set with   *)
(* at most one element: {} is NULL, {v} points to v.                       *)
(***************************************************************************)
EXTENDS Integers, Sequences, FiniteSets, TLC

VARIABLES
    \* ---- OGRGeocodeHasStringValidFormat() run on its own
    fmtTemplate,      \* the template handed to the validator
    fmtResult,        \* {} before the call, {bValidFormat} after it
    \* ---- OGRGeocodeBuildLayer() run on its own
    decRoot,          \* what CPLParseXMLString() made of the body
    decLayer,         \* {} before the call, {what it returned} after it
    \* ---- OGRGeocodeCreateSession() and its caller
    papszOptions,     \* the explicit options, key -> {} or {value}
    configOptions,    \* the process-wide OGR_GEOCODE_<key> settings
    nSettings,        \* how many options / settings the caller has set
    createPc,         \* "setup" | "returned"
    hCreated,         \* what OGRGeocodeCreateSession() returned: {} is NULL
    \* ---- the process: statics of the file and its environment
    now,              \* the wall clock gettimeofday() reads, in seconds
    hMutex,           \* the holder of the process-wide mutex, {} when free
    dfLastQueryTimeStamp, \* "OSM" / "MAPQUEST" -> time of the last request
    sessions,         \* session id -> _OGRGeocodingSessionHS
    stores,           \* cache location -> the datasource found there
    bSQLiteDriver,    \* whether the SQLite driver is registered
    \* ---- the threads running OGRGeocode()
    pc,               \* thread -> where it is in OGRGeocode()
    call,             \* thread -> the locals of its call, and what it did
    prev,             \* thread -> {} or its previous call, if that fetched
    nCalls,           \* calls started so far
    lastFetchStart,   \* throttled kind -> {} or {start of its last fetch}
    lastFetchEnd      \* throttled kind -> {} or {end of its last fetch}

decVars     == <<decRoot, decLayer>>
unitVars    == <<fmtTemplate, fmtResult, decVars>>
createVars  == <<papszOptions, configOptions, nSettings, createPc, hCreated>>
procVars    == <<now, hMutex, dfLastQueryTimeStamp, sessions, stores,
                 bSQLiteDriver>>
threadVars  == <<pc, call, prev, nCalls, lastFetchStart, lastFetchEnd>>
geocodeVars == <<procVars, threadVars>>
vars        == <<unitVars, createVars, geocodeVars>>

NULL == {}

-----------------------------------------------------------------------------
(* Bounds of the model.                                                    *)

\* longest template handed to the validator on its own
MaxTemplateLen == 4
\* how many options and process-wide settings the caller sets before
\* creating a session
MaxSettings == 3
\* how many children the searchresults element of a document has
MaxChildren == 3
\* how many OGRGeocode() calls the threads start in all
MaxCalls == 2
\* how many seconds the clock advances
MaxTicks == 2
\* how many lookups and inserts are made on the cache alone
MaxCacheOps == 4

-----------------------------------------------------------------------------
(* Program constants (ogr_geocoding.cpp lines 61-69).  The two preset     *)
(* templates keep their percent structure: one %s and no other '%'.  The   *)
(* host part is one letter ("o", "m"), the fixed parameters after the      *)
(* placeholder are "&", "x".                                                *)

OSM_NOMINATIM_QUERY      == <<"o", "?", "%", "s", "&", "x">>
MAPQUEST_NOMINATIM_QUERY == <<"m", "?", "%", "s", "&", "x">>

CACHE_LAYER_NAME     == "ogr_geocode_cache"
DEFAULT_CACHE_SQLITE == "ogr_geocode_cache.sqlite"
DEFAULT_CACHE_CSV    == "ogr_geocode_cache.csv"

-----------------------------------------------------------------------------
(* OGRGeocodeHasStringValidFormat()                                        *)

\* The while loop of lines 98-122 from position i on, with bFoundPctS =
\* found, followed by lines 123-125.  pszIter[1] past the last character is
\* the terminating '\0', which is neither '%' nor 's'.
RECURSIVE ScanFormat(_, _, _)
ScanFormat(t, i, bFoundPctS) ==
    IF i > Len(t) THEN bFoundPctS
    ELSE IF t[i] = "%"
         THEN IF i + 1 <= Len(t) /\ t[i + 1] = "%"
                 THEN ScanFormat(t, i + 2, bFoundPctS)
              ELSE IF i + 1 <= Len(t) /\ t[i + 1] = "s"
                 THEN IF bFoundPctS THEN FALSE
                      ELSE ScanFormat(t, i + 1, TRUE)
              ELSE FALSE
         ELSE ScanFormat(t, i + 1, bFoundPctS)

\* a slip that forgets the "second %s" test of lines 108-112
RECURSIVE ScanFormatNoDup(_, _, _)
ScanFormatNoDup(t, i, bFoundPctS) ==
    IF i > Len(t) THEN bFoundPctS
    ELSE IF t[i] = "%"
         THEN IF i + 1 <= Len(t) /\ t[i + 1] = "%"
                 THEN ScanFormatNoDup(t, i + 2, bFoundPctS)
              ELSE IF i + 1 <= Len(t) /\ t[i + 1] = "s"
                 THEN ScanFormatNoDup(t, i + 1, TRUE)
              ELSE FALSE
         ELSE ScanFormatNoDup(t, i + 1, bFoundPctS)

HasStringValidFormatNoDup(pszQueryTemplate) ==
    ScanFormatNoDup(pszQueryTemplate, 1, FALSE)

OGRGeocodeHasStringValidFormat(pszQueryTemplate) ==
    ScanFormat(pszQueryTemplate, 1, FALSE)

-----------------------------------------------------------------------------
(* Helpers of the CPL library the code calls.                              *)

\* CSLTestBoolean(): FALSE for NO, FALSE, OFF and 0, TRUE for anything else
CSLTestBoolean(v) == v \notin {"NO", "FALSE", "OFF", "0"}

\* CPLAtofM() on the DELAY values of the model, in whole seconds
CPLAtofM(v) ==
    CASE v = "0"   -> 0
      [] v = "1.0" -> 1
      [] v = "2"   -> 2
      [] OTHER     -> 0

\* CPLGetExtension() on the cache file names of the model
CPLGetExtension(f) ==
    CASE f \in {"ogr_geocode_cache.sqlite", "my.sqlite",
                "/vsimem/ogr_geocode_cache.sqlite"} -> "sqlite"
      [] f \in {"ogr_geocode_cache.csv", "my.csv",
                "/vsimem/ogr_geocode_cache.csv"}    -> "csv"
      [] f = "cache.txt"                            -> "txt"
      [] OTHER                                      -> ""

\* EQUALN(f, "PG:", 3)
StartsWithPG(f) == f \in {"PG:dbname=geocode"}

-----------------------------------------------------------------------------
(* OGRGeocodeGetParameter() and OGRGeocodeCreateSession()                  *)

Keys == {"CACHE_FILE", "READ_CACHE", "WRITE_CACHE", "SERVICE", "EMAIL",
         "APPLICATION", "DELAY", "QUERY_TEMPLATE", "EXTRA_QUERY_PARAMETERS"}

\* The values a caller gives each option in the model.
OptionValues(k) ==
    CASE k = "CACHE_FILE"  -> {"my.csv", "PG:dbname=geocode", "cache.txt"}
      [] k = "READ_CACHE"  -> {"FALSE", "YES"}
      [] k = "WRITE_CACHE" -> {"NO", "TRUE"}
      [] k = "SERVICE"     -> {"MAPQUEST_NOMINATIM", "OTHER_SERVICE"}
      [] k = "EMAIL"       -> {<<"e", "@">>, <<"f">>}
      [] k = "APPLICATION" -> {"app1", "app2"}
      [] k = "DELAY"       -> {"0", "2"}
      [] k = "QUERY_TEMPLATE" ->
             {<<"u", "?", "%", "s">>, <<"u", "%", "s", "%", "s">>,
              <<"u", "%", "%", "?", "%", "s">>, <<"u", "?">>}
      [] k = "EXTRA_QUERY_PARAMETERS" -> {<<"k">>, <<"l">>}

\* GDALVersionInfo("")
GDALVersionInfo == "GDAL"

NoOptions == [k \in Keys |-> NULL]

\* CSLFetchNameValue()
CSLFetchNameValue(opts, pszKey) == opts[pszKey]

\* CPLGetConfigOption("OGR_GEOCODE_<key>", default)
CPLGetConfigOption(cfg, pszKey, pszDefaultValue) ==
    IF cfg[pszKey] # NULL THEN cfg[pszKey] ELSE pszDefaultValue

\* a slip that asks the process-wide setting first
GetParameterConfigFirst(opts, cfg, pszKey, pszDefaultValue) ==
    IF cfg[pszKey] # NULL THEN cfg[pszKey]
    ELSE IF opts[pszKey] # NULL THEN opts[pszKey]
    ELSE pszDefaultValue

OGRGeocodeGetParameter(opts, cfg, pszKey, pszDefaultValue) ==
    LET pszRet == CSLFetchNameValue(opts, pszKey)
    IN  IF pszRet # NULL THEN pszRet
        ELSE CPLGetConfigOption(cfg, pszKey, pszDefaultValue)

\* the value a pointer that is not NULL points to
Deref(p) == CHOOSE v \in p : TRUE

\* lines 178-185: the cache location is accepted
CacheFileAccepted(pszCacheFilename) ==
    \/ StartsWithPG(pszCacheFilename)
    \/ CPLGetExtension(pszCacheFilename) = "csv"
    \/ CPLGetExtension(pszCacheFilename) = "sqlite"

\* lines 210-214
QueryTemplateDefault(pszGeocodingService) ==
    IF pszGeocodingService = "OSM_NOMINATIM" THEN {OSM_NOMINATIM_QUERY}
    ELSE IF pszGeocodingService = "MAPQUEST_NOMINATIM"
         THEN {MAPQUEST_NOMINATIM_QUERY}
    ELSE NULL

\* a slip that drops the test of lines 225-231
CreateSessionNoValidation(opts, cfg) ==
    LET P(k, d) == OGRGeocodeGetParameter(opts, cfg, k, d)
        pszCacheFilename    == Deref(P("CACHE_FILE", {DEFAULT_CACHE_SQLITE}))
        pszGeocodingService == Deref(P("SERVICE", {"OSM_NOMINATIM"}))
        pszQueryTemplate    ==
            P("QUERY_TEMPLATE", QueryTemplateDefault(pszGeocodingService))
    IN  IF ~CacheFileAccepted(pszCacheFilename) THEN NULL
        ELSE IF pszQueryTemplate = NULL THEN NULL
        ELSE {[pszCacheFilename        |-> pszCacheFilename,
               pszGeocodingService     |-> pszGeocodingService,
               pszEmail                |-> P("EMAIL", NULL),
               pszApplication          |->
                   Deref(P("APPLICATION", {GDALVersionInfo})),
               pszQueryTemplate        |-> Deref(pszQueryTemplate),
               pszExtraQueryParameters |-> P("EXTRA_QUERY_PARAMETERS", NULL),
               bReadCache  |-> CSLTestBoolean(Deref(P("READ_CACHE", {"TRUE"}))),
               bWriteCache |-> CSLTestBoolean(Deref(P("WRITE_CACHE", {"TRUE"}))),
               dfDelayBetweenQueries |-> CPLAtofM(Deref(P("DELAY", {"1.0"}))),
               poDS |-> NULL]}

\* The whole function: NULL on each of its three error returns, the filled
\* session otherwise.  poDS is NULL from CPLCalloc().
OGRGeocodeCreateSession(opts, cfg) ==
    LET P(k, d) == OGRGeocodeGetParameter(opts, cfg, k, d)
        pszCacheFilename    == Deref(P("CACHE_FILE", {DEFAULT_CACHE_SQLITE}))
        pszGeocodingService == Deref(P("SERVICE", {"OSM_NOMINATIM"}))
        pszQueryTemplate    ==
            P("QUERY_TEMPLATE", QueryTemplateDefault(pszGeocodingService))
    IN  IF ~CacheFileAccepted(pszCacheFilename) THEN NULL
        ELSE IF pszQueryTemplate = NULL THEN NULL
        ELSE IF ~OGRGeocodeHasStringValidFormat(Deref(pszQueryTemplate))
             THEN NULL
        ELSE {[pszCacheFilename        |-> pszCacheFilename,
               pszGeocodingService     |-> pszGeocodingService,
               pszEmail                |-> P("EMAIL", NULL),
               pszApplication          |->
                   Deref(P("APPLICATION", {GDALVersionInfo})),
               pszQueryTemplate        |-> Deref(pszQueryTemplate),
               pszExtraQueryParameters |-> P("EXTRA_QUERY_PARAMETERS", NULL),
               bReadCache  |-> CSLTestBoolean(Deref(P("READ_CACHE", {"TRUE"}))),
               bWriteCache |-> CSLTestBoolean(Deref(P("WRITE_CACHE", {"TRUE"}))),
               dfDelayBetweenQueries |-> CPLAtofM(Deref(P("DELAY", {"1.0"}))),
               poDS |-> NULL]}

-----------------------------------------------------------------------------
(* OGRGeocodeBuildLayer(): the decoder.                                    *)
(*                                                                         *)
(* CPLParseXMLString() gives NULL or a tree.  A tree is a record whose     *)
(* field searchresults is NULL when CPLSearchXMLNode() finds no            *)
(* "searchresults" element, and otherwise points to the sequence of that   *)
(* element's children.  A child is [eType, pszValue, psChild]; the         *)
(* children of a place are [pszValue |-> name, pszVal |-> NULL or {text}], *)
(* pszVal being what CPLGetXMLValue(psChild, NULL, NULL) returns.          *)

\* CPLAtofM() / atoi() on the texts of the model
TextToNumber(v) ==
    CASE v = "1"  -> 1
      [] v = "2"  -> 2
      [] v = "3"  -> 3
      [] v = "4"  -> 4
      [] v = "30" -> 30
      [] OTHER    -> 0

\* OGRGeometryFactory::createFromWkt(): NULL for a text that is no WKT
createFromWkt(pszWKT) ==
    IF pszWKT = "POLYGON((0 0,0 1,1 1,0 0))"
       THEN {[type |-> "POLYGON", wkt |-> pszWKT]}
    ELSE IF pszWKT = "POINT(3 4)"
       THEN {[type |-> "POINT", x |-> 3, y |-> 4]}
    ELSE NULL

\* new OGRPoint(x, y)
OGRPoint(x, y) == [type |-> "POINT", x |-> x, y |-> y]

\* OGRFeatureDefn::GetFieldIndex(): 0 here stands for the code's -1
GetFieldIndex(poFDefn, pszName) ==
    IF \E i \in 1..Len(poFDefn) : poFDefn[i].name = pszName
       THEN CHOOSE i \in 1..Len(poFDefn) :
               /\ poFDefn[i].name = pszName
               /\ \A j \in 1..(i - 1) : poFDefn[j].name # pszName
    ELSE 0

\* every new field left with the type of its construction, OFTString
NewFieldTypeString(pszName) == "OFTString"

\* lines 485-507: the type of a new field
NewFieldType(pszName) ==
    IF pszName = "place_rank" THEN "OFTInteger"
    ELSE IF pszName \in {"lat", "lon"} THEN "OFTReal"
    ELSE "OFTString"

\* OGRFeature::SetField(nIdx, pszVal): the text converted to the field's type
FieldValue(eType, pszVal) ==
    IF eType = "OFTString" THEN pszVal ELSE TextToNumber(pszVal)

\* First iteration (lines 476-511) from child i on.  st is
\* [poFDefn, bFoundLat, dfLat, bFoundLon, dfLon].
RECURSIVE FirstIteration(_, _, _)
FirstIteration(psPlace, i, st) ==
    IF i > Len(psPlace) THEN st
    ELSE
      LET pszName == psPlace[i].pszValue
          pszVal  == psPlace[i].pszVal
          isNew   == /\ GetFieldIndex(st.poFDefn, pszName) = 0
                     /\ pszName # "geotext"
          isLat   == isNew /\ pszName = "lat" /\ pszVal # NULL
          isLon   == isNew /\ pszName = "lon" /\ pszVal # NULL
          next    ==
            [poFDefn   |-> IF isNew
                           THEN Append(st.poFDefn,
                                       [name |-> pszName,
                                        type |-> NewFieldType(pszName)])
                           ELSE st.poFDefn,
             bFoundLat |-> st.bFoundLat \/ isLat,
             dfLat     |-> IF isLat THEN TextToNumber(Deref(pszVal))
                           ELSE st.dfLat,
             bFoundLon |-> st.bFoundLon \/ isLon,
             dfLon     |-> IF isLon THEN TextToNumber(Deref(pszVal))
                           ELSE st.dfLon]
      IN  FirstIteration(psPlace, i + 1, next)

\* a function with one more (or one changed) value
SetEntry(f, k, v) == [x \in DOMAIN f \cup {k} |-> IF x = k THEN v ELSE f[x]]

\* Second iteration (lines 513-539) from child i on.  poFeature is
\* [fields |-> name -> value for the fields that are set, geom |-> NULL or
\* {geometry}].
RECURSIVE SecondIteration(_, _, _, _)
SecondIteration(psPlace, poFDefn, i, poFeature) ==
    IF i > Len(psPlace) THEN poFeature
    ELSE
      LET pszName == psPlace[i].pszValue
          pszVal  == psPlace[i].pszVal
          nIdx    == GetFieldIndex(poFDefn, pszName)
          next    ==
            IF nIdx > 0
            THEN IF pszVal # NULL
                 THEN [poFeature EXCEPT !.fields =
                          SetEntry(@, pszName,
                                   FieldValue(poFDefn[nIdx].type,
                                              Deref(pszVal)))]
                 ELSE poFeature
            ELSE IF pszName = "geotext"
                    /\ pszVal # NULL
                    /\ createFromWkt(Deref(pszVal)) # NULL
                 THEN [poFeature EXCEPT !.geom = createFromWkt(Deref(pszVal))]
            ELSE poFeature
      IN  SecondIteration(psPlace, poFDefn, i + 1, next)

NoFields == [x \in {} |-> 0]

\* The body of the loop over the children of searchresults for one place
\* element (lines 473-547): the new field definitions and the new feature.
BuildPlace(poFDefn, psPlace) ==
    LET first == FirstIteration(psPlace, 1,
                     [poFDefn |-> poFDefn, bFoundLat |-> FALSE, dfLat |-> 0,
                      bFoundLon |-> FALSE, dfLon |-> 0])
        filled == SecondIteration(psPlace, first.poFDefn, 1,
                                  [fields |-> NoFields, geom |-> NULL])
        poFeature ==
            IF filled.geom = NULL /\ first.bFoundLon /\ first.bFoundLat
            THEN [filled EXCEPT !.geom = {OGRPoint(first.dfLon, first.dfLat)}]
            ELSE filled
    IN  [poFDefn |-> first.poFDefn, poFeature |-> poFeature]

\* a slip that puts each new feature before the others
RECURSIVE PlaceLoopReversed(_, _, _)
PlaceLoopReversed(children, i, poLayer) ==
    IF i > Len(children) THEN poLayer
    ELSE IF children[i].eType = "CXT_Element" /\ children[i].pszValue = "place"
         THEN LET r == BuildPlace(poLayer.poFDefn, children[i].psChild)
              IN  PlaceLoopReversed(children, i + 1,
                            [poFDefn  |-> r.poFDefn,
                             features |-> <<r.poFeature>> \o poLayer.features])
    ELSE PlaceLoopReversed(children, i + 1, poLayer)

\* the loop of lines 467-550 from child i of searchresults on
RECURSIVE PlaceLoop(_, _, _)
PlaceLoop(children, i, poLayer) ==
    IF i > Len(children) THEN poLayer
    ELSE IF children[i].eType = "CXT_Element" /\ children[i].pszValue = "place"
         THEN LET r == BuildPlace(poLayer.poFDefn, children[i].psChild)
              IN  PlaceLoop(children, i + 1,
                            [poFDefn  |-> r.poFDefn,
                             features |-> Append(poLayer.features,
                                                 r.poFeature)])
    ELSE PlaceLoop(children, i + 1, poLayer)

\* a slip that returns an empty layer where lines 456-463 return NULL
BuildLayerNeverFails(psRoot) ==
    IF psRoot = NULL \/ Deref(psRoot).searchresults = NULL
    THEN {[poFDefn |-> <<>>, features |-> <<>>]}
    ELSE {PlaceLoop(Deref(Deref(psRoot).searchresults), 1,
                    [poFDefn |-> <<>>, features |-> <<>>])}

\* The whole decoder on the parsed body: NULL or the layer.
OGRGeocodeBuildLayer(psRoot) ==
    IF psRoot = NULL THEN NULL
    ELSE IF Deref(psRoot).searchresults = NULL THEN NULL
    ELSE {PlaceLoop(Deref(Deref(psRoot).searchresults), 1,
                    [poFDefn |-> <<>>, features |-> <<>>])}

-----------------------------------------------------------------------------
(* The request URL (OGRGeocode() lines 611-629).                           *)

\* CPLEscapeString(s, -1, CPLES_URL): letters stay, the other characters
\* of the model become %XX.
RECURSIVE CPLEscapeURL(_)
CPLEscapeURL(str) ==
    IF str = <<>> THEN <<>>
    ELSE LET c == Head(str)
             e == CASE c = " " -> <<"%", "2", "0">>
                    [] c = "@" -> <<"%", "4", "0">>
                    [] c = "&" -> <<"%", "2", "6">>
                    [] OTHER   -> <<c>>
         IN  e \o CPLEscapeURL(Tail(str))

\* CPLSPrintf(fmt, arg) from position i of the format on: %s is the
\* argument, %% a percent sign.
RECURSIVE CPLSPrintf(_, _, _)
CPLSPrintf(fmt, i, arg) ==
    IF i > Len(fmt) THEN <<>>
    ELSE IF fmt[i] = "%" /\ i < Len(fmt) /\ fmt[i + 1] = "s"
         THEN arg \o CPLSPrintf(fmt, i + 2, arg)
    ELSE IF fmt[i] = "%" /\ i < Len(fmt) /\ fmt[i + 1] = "%"
         THEN <<"%">> \o CPLSPrintf(fmt, i + 2, arg)
    ELSE <<fmt[i]>> \o CPLSPrintf(fmt, i + 1, arg)

\* osURL, lines 611-619
RequestURL(hS, pszQuery) ==
    LET osURL == CPLSPrintf(hS.pszQueryTemplate, 1, CPLEscapeURL(pszQuery))
    IN  IF hS.pszExtraQueryParameters # NULL
        THEN osURL \o <<"&">> \o Deref(hS.pszExtraQueryParameters)
        ELSE osURL

EmailParameter == <<"&", "e", "m", "a", "i", "l", "=">>

\* osURLWithEmail, lines 621-629
RequestURLWithEmail(hS, pszQuery) ==
    IF hS.pszGeocodingService = "OSM_NOMINATIM" /\ hS.pszEmail # NULL
    THEN RequestURL(hS, pszQuery) \o EmailParameter
             \o CPLEscapeURL(Deref(hS.pszEmail))
    ELSE RequestURL(hS, pszQuery)

\* a slip that looks the cache up under the URL that is fetched
CacheKeyWithEmail(hS, pszQuery) == RequestURLWithEmail(hS, pszQuery)

\* the URL OGRGeocode() hands to OGRGeocodeGetFromCache() and
\* OGRGeocodePutIntoCache() (lines 635 and 686)
CacheKey(hS, pszQuery) == RequestURL(hS, pszQuery)

\* every service taken as OSM_NOMINATIM by the rate limiter
RateKindAlwaysOsm(hS) == {"OSM"}

\* pdfLastQueryTime, lines 640-644: NULL or the throttled kind
RateKind(hS) ==
    IF hS.pszGeocodingService = "OSM_NOMINATIM" THEN {"OSM"}
    ELSE IF hS.pszGeocodingService = "MAPQUEST_NOMINATIM" THEN {"MAPQUEST"}
    ELSE NULL

RateKinds == {"OSM", "MAPQUEST"}

-----------------------------------------------------------------------------
(* The cache store.  A location holds no datasource, or a datasource that  *)
(* has or has not the layer ogr_geocode_cache, with its rows <<url, blob>> *)
(* in insertion order.  The datasource handle poDS of a session is the     *)
(* location it was opened or created at.  What the environment decides     *)
(* (whether a datasource, the layer, a row can be created) is the record   *)
(* env of booleans.  The attribute filter url='...' keeps the rows whose   *)
(* url is the URL asked for.                                               *)

Locations == {DEFAULT_CACHE_SQLITE, DEFAULT_CACHE_CSV, "my.csv",
              "PG:dbname=geocode", "/vsimem/ogr_geocode_cache.csv",
              "/vsimem/ogr_geocode_cache.sqlite"}

NoStore  == [exists |-> FALSE, layer |-> FALSE, rows |-> <<>>]
NewStore == [exists |-> TRUE, layer |-> FALSE, rows |-> <<>>]

Envs == [bCreateOK : BOOLEAN, bMemOK : BOOLEAN, bLayerOK : BOOLEAN,
         bRowOK : BOOLEAN]
NoEnv == [bCreateOK |-> FALSE, bMemOK |-> FALSE, bLayerOK |-> FALSE,
          bRowOK |-> FALSE]

\* OGROpen(f, TRUE, NULL) succeeds
OGROpen(st, drv, f) ==
    st[f].exists /\ (CPLGetExtension(f) = "sqlite" => drv)

\* OGRGetDriverByName(osExt) is not NULL: the CSV driver is built in
OGRGetDriverByName(drv, osExt) ==
    osExt = "csv" \/ (osExt = "sqlite" /\ drv)

\* CPLSPrintf("/vsimem/%s.%s", CACHE_LAYER_NAME, osExt)
VsiMemName(osExt) ==
    IF osExt = "csv" THEN "/vsimem/ogr_geocode_cache.csv"
    ELSE "/vsimem/ogr_geocode_cache.sqlite"

\* lines 277-278: the locals of OGRGeocodeGetCacheLayer(), with the
\* session's file name (changed in place by the function) and the stores
CacheLocals(hS, st) ==
    [pszCacheFilename |-> hS.pszCacheFilename,
     osExt |-> CPLGetExtension(hS.pszCacheFilename),
     poDS |-> hS.poDS,
     stores |-> st]

\* an opening that tries the default CSV file before the default SQLite file
OpenCacheFileCsvFirst(m, drv) ==
    IF /\ m.pszCacheFilename = DEFAULT_CACHE_SQLITE
       /\ OGROpen(m.stores, drv, DEFAULT_CACHE_CSV)
    THEN [m EXCEPT !.poDS = {DEFAULT_CACHE_CSV},
                   !.pszCacheFilename = DEFAULT_CACHE_CSV,
                   !.osExt = "csv"]
    ELSE IF OGROpen(m.stores, drv, m.pszCacheFilename)
    THEN [m EXCEPT !.poDS = {m.pszCacheFilename}]
    ELSE m

\* lines 289-302: the file is opened, or the default CSV file in place of
\* the default SQLite file
OpenCacheFile(m, drv) ==
    IF OGROpen(m.stores, drv, m.pszCacheFilename)
    THEN [m EXCEPT !.poDS = {m.pszCacheFilename}]
    ELSE IF /\ m.pszCacheFilename = DEFAULT_CACHE_SQLITE
            /\ OGROpen(m.stores, drv, DEFAULT_CACHE_CSV)
    THEN [m EXCEPT !.poDS = {DEFAULT_CACHE_CSV},
                   !.pszCacheFilename = DEFAULT_CACHE_CSV,
                   !.osExt = "csv"]
    ELSE m

\* lines 307-317: without a driver for the default SQLite file, the default
\* CSV file is created in its place
SwitchDriver(m, drv) ==
    IF /\ ~OGRGetDriverByName(drv, m.osExt)
       /\ m.pszCacheFilename = DEFAULT_CACHE_SQLITE
    THEN [m EXCEPT !.pszCacheFilename = DEFAULT_CACHE_CSV, !.osExt = "csv"]
    ELSE m

\* lines 327-328 and 339-340: OGR_Dr_CreateDataSource() at the file name
CreateDataSource(m, bOK) ==
    IF bOK /\ ~m.stores[m.pszCacheFilename].exists
    THEN [m EXCEPT !.poDS = {m.pszCacheFilename},
                   !.stores[m.pszCacheFilename] = NewStore]
    ELSE m

\* a fallback to memory whatever the creation of the file gave
CreateInMemoryAlways(m, env) ==
    IF m.osExt \in {"sqlite", "csv"}
    THEN CreateDataSource(
             [m EXCEPT !.pszCacheFilename = VsiMemName(m.osExt)], env.bMemOK)
    ELSE m

\* lines 330-341: a datasource in memory when the file cannot be created
CreateInMemory(m, env) ==
    IF m.poDS = NULL /\ m.osExt \in {"sqlite", "csv"}
    THEN CreateDataSource(
             [m EXCEPT !.pszCacheFilename = VsiMemName(m.osExt)], env.bMemOK)
    ELSE m

\* lines 318-344
CreateWithDriver(m, drv, env) ==
    IF OGRGetDriverByName(drv, m.osExt)
    THEN CreateInMemory(CreateDataSource(m, env.bCreateOK), env)
    ELSE m

\* lines 304-345
CreateCacheFile(m, drv, bCreateIfNecessary, env) ==
    IF /\ bCreateIfNecessary
       /\ m.poDS = NULL
       /\ ~StartsWithPG(m.pszCacheFilename)
    THEN CreateWithDriver(SwitchDriver(m, drv), drv, env)
    ELSE m

\* lines 349-392: no datasource, or the layer of the datasource, created
\* when asked for
CacheLayerOf(hS, m, bCreateIfNecessary, env) ==
    IF m.poDS = NULL
    THEN [hSession |-> [hS EXCEPT !.pszCacheFilename = m.pszCacheFilename],
          stores |-> m.stores, poLayer |-> NULL]
    ELSE IF m.stores[Deref(m.poDS)].layer
    THEN [hSession |-> [hS EXCEPT !.pszCacheFilename = m.pszCacheFilename,
                                  !.poDS = m.poDS],
          stores |-> m.stores, poLayer |-> m.poDS]
    ELSE IF bCreateIfNecessary /\ env.bLayerOK
    THEN [hSession |-> [hS EXCEPT !.pszCacheFilename = m.pszCacheFilename,
                                  !.poDS = m.poDS],
          stores |-> [m.stores EXCEPT ![Deref(m.poDS)].layer = TRUE],
          poLayer |-> m.poDS]
    ELSE [hSession |-> [hS EXCEPT !.pszCacheFilename = m.pszCacheFilename,
                                  !.poDS = m.poDS],
          stores |-> m.stores, poLayer |-> NULL]

\* OGRGeocodeGetCacheLayer(): the session and the stores as it leaves
\* them, and the layer it returns (NULL, or the location of its store).
OGRGeocodeGetCacheLayer(hS, st, drv, bCreateIfNecessary, env) ==
    CacheLayerOf(hS,
                 IF hS.poDS = NULL
                 THEN CreateCacheFile(OpenCacheFile(CacheLocals(hS, st), drv),
                                      drv, bCreateIfNecessary, env)
                 ELSE CacheLocals(hS, st),
                 bCreateIfNecessary, env)

\* a reader that takes the newest row that passes the filter
LastMatch(rows, pszURL) ==
    IF \E i \in 1..Len(rows) : rows[i][1] = pszURL
    THEN CHOOSE i \in 1..Len(rows) :
            /\ rows[i][1] = pszURL
            /\ \A j \in (i + 1)..Len(rows) : rows[j][1] # pszURL
    ELSE 0

\* the first row of the layer that passes the attribute filter, 0 if none
FirstMatch(rows, pszURL) ==
    IF \E i \in 1..Len(rows) : rows[i][1] = pszURL
    THEN CHOOSE i \in 1..Len(rows) :
            /\ rows[i][1] = pszURL
            /\ \A j \in 1..(i - 1) : rows[j][1] # pszURL
    ELSE 0

\* lines 407-420: the blob of the first row that passes the filter
ReadRow(r, pszURL) ==
    [hSession |-> r.hSession, stores |-> r.stores,
     pszRet |->
        IF r.poLayer = NULL THEN NULL
        ELSE IF FirstMatch(r.stores[Deref(r.poLayer)].rows, pszURL) = 0
        THEN NULL
        ELSE {r.stores[Deref(r.poLayer)].rows[
                 FirstMatch(r.stores[Deref(r.poLayer)].rows, pszURL)][2]}]

\* OGRGeocodeGetFromCache(), between taking and releasing the mutex
OGRGeocodeGetFromCache(hS, st, drv, pszURL) ==
    ReadRow(OGRGeocodeGetCacheLayer(hS, st, drv, FALSE, NoEnv), pszURL)

\* a slip that gets the layer and reports success without adding the row
PutIntoCacheDropped(hS, st, drv, pszURL, pszContent, env) ==
    [hSession |-> OGRGeocodeGetCacheLayer(hS, st, drv, TRUE, env).hSession,
     stores |-> OGRGeocodeGetCacheLayer(hS, st, drv, TRUE, env).stores,
     bRet |-> OGRGeocodeGetCacheLayer(hS, st, drv, TRUE, env).poLayer # NULL]

\* a writer that leaves the layer alone when it has a row for the URL
WriteRowUnlessPresent(r, pszURL, pszContent, env) ==
    IF r.poLayer = NULL
    THEN [hSession |-> r.hSession, stores |-> r.stores, bRet |-> FALSE]
    ELSE IF FirstMatch(r.stores[Deref(r.poLayer)].rows, pszURL) # 0
    THEN [hSession |-> r.hSession, stores |-> r.stores, bRet |-> TRUE]
    ELSE [hSession |-> r.hSession,
          stores |-> [r.stores EXCEPT ![Deref(r.poLayer)].rows =
                         Append(@, <<pszURL, pszContent>>)],
          bRet |-> env.bRowOK]

\* lines 438-444: a row is appended to the layer
WriteRow(r, pszURL, pszContent, env) ==
    IF r.poLayer = NULL
    THEN [hSession |-> r.hSession, stores |-> r.stores, bRet |-> FALSE]
    ELSE IF env.bRowOK
    THEN [hSession |-> r.hSession,
          stores |-> [r.stores EXCEPT ![Deref(r.poLayer)].rows =
                         Append(@, <<pszURL, pszContent>>)],
          bRet |-> TRUE]
    ELSE [hSession |-> r.hSession, stores |-> r.stores, bRet |-> FALSE]

\* OGRGeocodePutIntoCache(), between taking and releasing the mutex
OGRGeocodePutIntoCache(hS, st, drv, pszURL, pszContent, env) ==
    WriteRow(OGRGeocodeGetCacheLayer(hS, st, drv, TRUE, env),
             pszURL, pszContent, env)

-----------------------------------------------------------------------------
(* The process running OGRGeocode(): sets of the model.                    *)

Threads    == {1, 2}
SessionIds == {1, 2}
\* the free-text query of the calls: a letter and a space
Queries    == {<<"a", " ">>}

\* The bodies the service answers with, and what CPLParseXMLString() and
\* CPLSearchXMLNode() make of each.
Bodies == {"<searchresults><place lat='1' lon='2'/><place/></searchresults>",
           "<html>", "<searchresults"}

Child(pszName, pszText) == [pszValue |-> pszName, pszVal |-> {pszText}]
PlaceElement(psChild) ==
    [eType |-> "CXT_Element", pszValue |-> "place", psChild |-> psChild]

CPLParseXMLString(pszContent) ==
    CASE pszContent =
           "<searchresults><place lat='1' lon='2'/><place/></searchresults>"
           -> {[searchresults |->
                  {<<PlaceElement(<<Child("lat", "1"), Child("lon", "2")>>),
                     PlaceElement(<<>>)>>}]}
      [] pszContent = "<html>" -> {[searchresults |-> NULL]}
      [] OTHER -> NULL

\* what CPLHTTPFetch() returns: NULL, a result without data, or a body
FetchResults == {"NULL", "NODATA"} \cup Bodies

\* the wall clock when the process starts: far from the initial 0.0 of the
\* two time stamps
Epoch == 10

\* the clock does not go further in the model
MaxTime == Epoch + MaxTicks

\* the locals of a thread that is not in OGRGeocode()
IdleCall ==
    [hSession |-> 0, pszQuery |-> NULL, papszStructuredQuery |-> NULL,
     osURL |-> <<>>, osURLWithEmail |-> <<>>,
     pszCachedResult |-> NULL, pszResult |-> NULL, hLayer |-> NULL,
     wake |-> 0,
     \* what the call did so far
     lookupURL |-> NULL, putURL |-> NULL, fetchURL |-> NULL,
     bPutOK |-> FALSE, bPutFirst |-> FALSE,
     bLocked |-> FALSE, bSlept |-> FALSE, bReleased |-> FALSE,
     fetchStart |-> 0, prevStart |-> NULL, prevEnd |-> NULL]

NoProcess ==
    /\ now = Epoch
    /\ hMutex = NULL
    /\ dfLastQueryTimeStamp = [k \in RateKinds |-> 0]
    /\ sessions = [s \in SessionIds |-> 0]
    /\ stores = [l \in Locations |-> NoStore]
    /\ bSQLiteDriver = TRUE
    /\ pc = [t \in Threads |-> "idle"]
    /\ call = [t \in Threads |-> IdleCall]
    /\ prev = [t \in Threads |-> NULL]
    /\ nCalls = 0
    /\ lastFetchStart = [k \in RateKinds |-> NULL]
    /\ lastFetchEnd = [k \in RateKinds |-> NULL]

-----------------------------------------------------------------------------
(* The validator run on its own: every template of at most                 *)
(* MaxTemplateLen characters over '%', 's' and one other character.        *)

TemplateChars == {"%", "s", "a"}

RECURSIVE SeqsUpTo(_, _)
SeqsUpTo(S, n) ==
    IF n = 0 THEN {<<>>}
    ELSE LET shorter == SeqsUpTo(S, n - 1)
         IN  shorter \cup {Append(q, c) : q \in shorter, c \in S}

Templates == SeqsUpTo(TemplateChars, MaxTemplateLen)

FormatInit ==
    /\ fmtTemplate \in Templates
    /\ fmtResult = NULL
    /\ decRoot = NULL
    /\ decLayer = NULL
    /\ papszOptions = NoOptions
    /\ configOptions = NoOptions
    /\ nSettings = 0
    /\ createPc = "setup"
    /\ hCreated = NULL
    /\ NoProcess

ValidateTemplate ==
    /\ fmtResult = NULL
    /\ fmtResult' = {OGRGeocodeHasStringValidFormat(fmtTemplate)}
    /\ UNCHANGED <<fmtTemplate, decVars, createVars, geocodeVars>>

FormatNext == ValidateTemplate

FormatSpec == FormatInit /\ [][FormatNext]_vars

-----------------------------------------------------------------------------
(* The decoder run on its own: every document whose searchresults element  *)
(* has at most MaxChildren children, each one of SearchResultChildren.     *)

\* a child of a place without text: CPLGetXMLValue() returns NULL
EmptyChild(pszName) == [pszValue |-> pszName, pszVal |-> NULL]

SearchResultChildren ==
    { PlaceElement(<<Child("lat", "1"), Child("lon", "2")>>),
      PlaceElement(<<Child("lon", "4"), Child("lat", "3")>>),
      PlaceElement(<<Child("lat", "1")>>),
      PlaceElement(<<Child("lat", "1"), Child("lon", "2"),
                     Child("geotext", "POINT(3 4)")>>),
      PlaceElement(<<EmptyChild("lon"), Child("lat", "1")>>),
      PlaceElement(<<Child("display_name", "x"), Child("place_rank", "30")>>),
      PlaceElement(<<Child("geotext", "POLYGON((0 0,0 1,1 1,0 0))"),
                     Child("lon", "2"), Child("lat", "1")>>),
      PlaceElement(<<Child("geotext", "POINT(3 4)")>>),
      PlaceElement(<<Child("lat", "1"), Child("geotext", "garbage"),
                     Child("lon", "2")>>),
      [eType |-> "CXT_Text", pszValue |-> "place", psChild |-> <<>>],
      [eType |-> "CXT_Element", pszValue |-> "other",
       psChild |-> <<Child("lat", "1")>>] }

Documents ==
    {NULL, {[searchresults |-> NULL]}}
      \cup {{[searchresults |-> {d}]} :
               d \in SeqsUpTo(SearchResultChildren, MaxChildren)}

DecodeInit ==
    /\ fmtTemplate = <<>>
    /\ fmtResult = NULL
    /\ decRoot \in Documents
    /\ decLayer = NULL
    /\ papszOptions = NoOptions
    /\ configOptions = NoOptions
    /\ nSettings = 0
    /\ createPc = "setup"
    /\ hCreated = NULL
    /\ NoProcess

BuildLayer ==
    /\ decLayer = NULL
    /\ decLayer' = {OGRGeocodeBuildLayer(decRoot)}
    /\ UNCHANGED <<fmtTemplate, fmtResult, decRoot, createVars, geocodeVars>>

DecodeNext == BuildLayer

DecodeSpec == DecodeInit /\ [][DecodeNext]_vars

-----------------------------------------------------------------------------
(* Session creation: the caller sets some options and some process-wide    *)
(* settings, then calls OGRGeocodeCreateSession().                         *)

CreateInit ==
    /\ fmtTemplate = <<>>
    /\ fmtResult = NULL
    /\ decRoot = NULL
    /\ decLayer = NULL
    /\ papszOptions = NoOptions
    /\ configOptions = NoOptions
    /\ nSettings = 0
    /\ createPc = "setup"
    /\ hCreated = NULL
    /\ NoProcess

\* CSLSetNameValue() by the caller
SetOption(k, v) ==
    /\ createPc = "setup"
    /\ nSettings < MaxSettings
    /\ papszOptions[k] = NULL
    /\ papszOptions' = [papszOptions EXCEPT ![k] = {v}]
    /\ nSettings' = nSettings + 1
    /\ UNCHANGED <<unitVars, configOptions, createPc, hCreated, geocodeVars>>

\* CPLSetConfigOption("OGR_GEOCODE_<key>", v) by the caller
SetConfigOption(k, v) ==
    /\ createPc = "setup"
    /\ nSettings < MaxSettings
    /\ configOptions[k] = NULL
    /\ configOptions' = [configOptions EXCEPT ![k] = {v}]
    /\ nSettings' = nSettings + 1
    /\ UNCHANGED <<unitVars, papszOptions, createPc, hCreated, geocodeVars>>

CreateSession ==
    /\ createPc = "setup"
    /\ hCreated' = OGRGeocodeCreateSession(papszOptions, configOptions)
    /\ createPc' = "returned"
    /\ UNCHANGED <<unitVars, papszOptions, configOptions, nSettings, geocodeVars>>

CreateNext ==
    \/ \E k \in Keys : \E v \in OptionValues(k) : SetOption(k, v)
    \/ \E k \in Keys : \E v \in OptionValues(k) : SetConfigOption(k, v)
    \/ CreateSession

CreateSpec == CreateInit /\ [][CreateNext]_vars

-----------------------------------------------------------------------------
(* OGRGeocode() run by the threads.  The program counter of a thread:      *)
(*   "idle"   not in OGRGeocode()                                          *)
(*   "lookup" at line 635, about to call OGRGeocodeGetFromCache()          *)
(*   "miss"   at line 638, the cache gave nothing or was not asked         *)
(*   "sleep"  in CPLSleep() of line 660, holding the mutex                 *)
(*   "fetch"  in CPLHTTPFetch() of line 664 (holding the mutex) or 670     *)
(*   "put"    at line 686, about to call OGRGeocodePutIntoCache()          *)
(*   "done"   at line 698, returning hLayer                                *)

\* The sessions of a run, as the options they are created with.
WithOptions(f) == [k \in Keys |-> IF k \in DOMAIN f THEN {f[k]} ELSE NULL]

Scenarios ==
    { \* two OSM_NOMINATIM sessions on the default cache that differ in EMAIL
      [a |-> NoOptions,
       b |-> WithOptions([EMAIL |-> <<"e", "@">>])],
      \* no delay and no cache read, against a slow MapQuest session
      [a |-> WithOptions([DELAY |-> "0", READ_CACHE |-> "FALSE"]),
       b |-> WithOptions([SERVICE |-> "MAPQUEST_NOMINATIM", DELAY |-> "2",
                          CACHE_FILE |-> "my.csv"])],
      \* a PostgreSQL cache, and a service that is not throttled
      [a |-> WithOptions([CACHE_FILE |-> "PG:dbname=geocode"]),
       b |-> WithOptions([SERVICE |-> "OTHER_SERVICE",
                          QUERY_TEMPLATE |-> <<"u", "?", "%", "s">>,
                          CACHE_FILE |-> "my.csv", DELAY |-> "2"])] }

\* The process before the first call, with the sessions of scenario sc,
\* the SQLite driver registered or not and the PostgreSQL database
\* reachable or not.
ProcessStart(sc, drv, pgUp) ==
    /\ fmtTemplate = <<>>
    /\ fmtResult = NULL
    /\ decRoot = NULL
    /\ decLayer = NULL
    /\ papszOptions = NoOptions
    /\ configOptions = NoOptions
    /\ nSettings = 0
    /\ createPc = "setup"
    /\ hCreated = NULL
    /\ now = Epoch
    /\ hMutex = NULL
    /\ dfLastQueryTimeStamp = [k \in RateKinds |-> 0]
    /\ sessions =
         [s \in SessionIds |->
            Deref(OGRGeocodeCreateSession(IF s = 1 THEN sc.a ELSE sc.b,
                                          NoOptions))]
    /\ stores = [l \in Locations |->
                   IF StartsWithPG(l) /\ pgUp THEN NewStore ELSE NoStore]
    /\ bSQLiteDriver = drv
    /\ pc = [t \in Threads |-> "idle"]
    /\ call = [t \in Threads |-> IdleCall]
    /\ prev = [t \in Threads |-> NULL]
    /\ nCalls = 0
    /\ lastFetchStart = [k \in RateKinds |-> NULL]
    /\ lastFetchEnd = [k \in RateKinds |-> NULL]

\* lines 596-609: the call is rejected
RejectsMissingQueryOnly(pszQuery, papszStructuredQuery) ==
    pszQuery = NULL

RejectsCall(pszQuery, papszStructuredQuery) ==
    \/ (pszQuery = NULL /\ papszStructuredQuery = NULL)
    \/ (pszQuery # NULL /\ papszStructuredQuery # NULL)
    \/ papszStructuredQuery # NULL

\* lines 595-636 without the cache lookup: the arguments are checked and the
\* two URLs built
OGRGeocodeEnter(t, s, pszQuery, papszStructuredQuery) ==
    /\ pc[t] = "idle"
    /\ \A u \in Threads : u < t => pc[u] # "idle"
    /\ nCalls < MaxCalls
    /\ nCalls' = nCalls + 1
    /\ IF RejectsCall(pszQuery, papszStructuredQuery)
       THEN /\ call' = [call EXCEPT ![t] =
                   [IdleCall EXCEPT !.hSession = s, !.pszQuery = pszQuery,
                       !.papszStructuredQuery = papszStructuredQuery]]
            /\ pc' = [pc EXCEPT ![t] = "done"]
       ELSE /\ call' = [call EXCEPT ![t] =
                   [IdleCall EXCEPT !.hSession = s, !.pszQuery = pszQuery,
                       !.papszStructuredQuery = papszStructuredQuery,
                       !.osURL = CacheKey(sessions[s], Deref(pszQuery)),
                       !.osURLWithEmail =
                           RequestURLWithEmail(sessions[s], Deref(pszQuery))]]
            /\ pc' = [pc EXCEPT ![t] =
                   IF sessions[s].bReadCache THEN "lookup" ELSE "miss"]
    /\ UNCHANGED <<unitVars, createVars, procVars, prev, lastFetchStart,
                   lastFetchEnd>>

\* a holder that does not wait for the mutex
MutexHolderNoWait(hM) == TRUE

\* CPLMutexHolderD(&hMutex), lines 403, 433 and 652: the caller goes on
\* when no thread holds the mutex, and waits otherwise
CPLMutexHolderD(hM) == hM = NULL

\* line 636 taken as "not found" whatever the cache returned
AfterLookupAlwaysMiss(pszCachedResult) == "miss"

\* line 636: where the call goes after the lookup
AfterLookup(pszCachedResult) ==
    IF pszCachedResult = NULL THEN "miss" ELSE "done"

\* line 635, and for a hit lines 692-696: OGRGeocodeGetFromCache() from
\* taking the mutex to releasing it, then the decoding of what it returned
CacheLookup(t) ==
    /\ pc[t] = "lookup"
    /\ CPLMutexHolderD(hMutex)
    /\ LET s == call[t].hSession
           r == OGRGeocodeGetFromCache(sessions[s], stores, bSQLiteDriver,
                                       call[t].osURL)
           goes == AfterLookup(r.pszRet)
       IN  /\ sessions' = [sessions EXCEPT ![s] = r.hSession]
           /\ stores' = r.stores
           /\ pc' = [pc EXCEPT ![t] = goes]
           /\ call' = [call EXCEPT ![t].pszCachedResult = r.pszRet,
                          ![t].lookupURL = {call[t].osURL},
                          ![t].hLayer =
                              IF goes = "done"
                              THEN OGRGeocodeBuildLayer(
                                     CPLParseXMLString(Deref(r.pszRet)))
                              ELSE NULL]
    /\ UNCHANGED <<unitVars, createVars, now, hMutex, dfLastQueryTimeStamp,
                   bSQLiteDriver, prev, nCalls, lastFetchStart, lastFetchEnd>>

\* the call of CPLHTTPFetch(osURLWithEmail, ...) begins
StartFetch(t, c) ==
    LET kind == RateKind(sessions[c.hSession])
    IN  [c EXCEPT !.fetchURL = {c.osURLWithEmail},
                  !.fetchStart = now,
                  !.prevStart = IF kind = NULL THEN NULL
                                ELSE lastFetchStart[Deref(kind)],
                  !.prevEnd = IF kind = NULL THEN NULL
                              ELSE lastFetchEnd[Deref(kind)]]

NoteFetchStart(t) ==
    LET kind == RateKind(sessions[call[t].hSession])
    IN  lastFetchStart' =
             IF kind = NULL THEN lastFetchStart
             ELSE [lastFetchStart EXCEPT ![Deref(kind)] = {now}]

\* lines 657-662 with the test dropped: never sleeps
SleepUntilNever(dfCurrentTime, dfLast, dfDelay) == NULL

\* lines 657-662: NULL when the call does not sleep, else the time
\* CPLSleep() returns at the earliest
SleepUntil(dfCurrentTime, dfLast, dfDelay) ==
    IF dfCurrentTime < dfLast + dfDelay THEN {dfLast + dfDelay} ELSE NULL

\* lines 650-662: the mutex is taken, the clock read, and the thread
\* sleeps or goes on to fetch
RateLimitEnter(t) ==
    /\ pc[t] = "miss"
    /\ RateKind(sessions[call[t].hSession]) # NULL
    /\ CPLMutexHolderD(hMutex)
    /\ hMutex' = {t}
    /\ LET hS == sessions[call[t].hSession]
           kind == Deref(RateKind(hS))
           until == SleepUntil(now, dfLastQueryTimeStamp[kind],
                               hS.dfDelayBetweenQueries)
       IN  IF until # NULL
           THEN /\ pc' = [pc EXCEPT ![t] = "sleep"]
                /\ call' = [call EXCEPT ![t].bLocked = TRUE,
                               ![t].bSlept = TRUE,
                               ![t].wake = Deref(until)]
                /\ UNCHANGED lastFetchStart
           ELSE /\ pc' = [pc EXCEPT ![t] = "fetch"]
                /\ call' = [call EXCEPT ![t] =
                               StartFetch(t, [call[t] EXCEPT !.bLocked = TRUE])]
                /\ NoteFetchStart(t)
    /\ UNCHANGED <<unitVars, createVars, now, dfLastQueryTimeStamp, sessions,
                   stores, bSQLiteDriver, prev, nCalls, lastFetchEnd>>

\* CPLSleep() of line 660 returns, and the fetch of line 664 begins
SleepReturn(t) ==
    /\ pc[t] = "sleep"
    /\ now >= call[t].wake
    /\ pc' = [pc EXCEPT ![t] = "fetch"]
    /\ call' = [call EXCEPT ![t] = StartFetch(t, [call[t] EXCEPT !.wake = 0])]
    /\ NoteFetchStart(t)
    /\ UNCHANGED <<unitVars, createVars, procVars, prev, nCalls, lastFetchEnd>>

\* line 670: the fetch of a service that is not throttled begins
FetchUnthrottled(t) ==
    /\ pc[t] = "miss"
    /\ RateKind(sessions[call[t].hSession]) = NULL
    /\ pc' = [pc EXCEPT ![t] = "fetch"]
    /\ call' = [call EXCEPT ![t] = StartFetch(t, call[t])]
    /\ NoteFetchStart(t)
    /\ UNCHANGED <<unitVars, createVars, procVars, prev, nCalls, lastFetchEnd>>

\* a slip that inserts whatever the fetch gave
AfterFetchAlwaysPut(pszResult, bWriteCache) ==
    IF bWriteCache THEN "put" ELSE "done"

\* a slip that decodes first and inserts only a body that decodes
AfterFetchIfDecodes(pszResult, bWriteCache) ==
    IF pszResult = NULL THEN "done"
    ELSE IF /\ bWriteCache
            /\ OGRGeocodeBuildLayer(CPLParseXMLString(Deref(pszResult))) # NULL
    THEN "put"
    ELSE "done"

\* lines 675-688: where the call goes when the fetch has returned
AfterFetch(pszResult, bWriteCache) ==
    IF pszResult = NULL THEN "done"
    ELSE IF bWriteCache THEN "put"
    ELSE "done"

\* a section that ends with the mutex still held
MutexKeptAfterSection(hM) == hM

\* line 668: the holder of line 652 goes out of scope
MutexAfterSection(hM) == NULL

\* CPLHTTPFetch() returns res.  Lines 666-668 for a throttled service: the
\* time stamp is set and the mutex released.  Then lines 675-691: no
\* result, or a body that is decoded at once (line 687) when the session
\* does not write the cache.
FetchReturn(t, res) ==
    /\ pc[t] = "fetch"
    /\ LET hS == sessions[call[t].hSession]
           kind == RateKind(hS)
           pszResult == IF res \in Bodies THEN {res} ELSE NULL
       IN  /\ IF kind # NULL
              THEN /\ dfLastQueryTimeStamp' =
                        [dfLastQueryTimeStamp EXCEPT ![Deref(kind)] = now]
                   /\ lastFetchEnd' =
                        [lastFetchEnd EXCEPT ![Deref(kind)] = {now}]
                   /\ hMutex' = MutexAfterSection(hMutex)
              ELSE UNCHANGED <<dfLastQueryTimeStamp, lastFetchEnd, hMutex>>
           /\ LET c == [call[t] EXCEPT !.fetchStart = 0, !.prevStart = NULL,
                                        !.prevEnd = NULL,
                                        !.pszResult = pszResult]
              IN  /\ pc' = [pc EXCEPT ![t] =
                                AfterFetch(pszResult, hS.bWriteCache)]
                  /\ call' = [call EXCEPT ![t] =
                         IF pszResult # NULL /\ ~hS.bWriteCache
                         THEN [c EXCEPT !.hLayer = OGRGeocodeBuildLayer(
                                                     CPLParseXMLString(res))]
                         ELSE c]
    /\ UNCHANGED <<unitVars, createVars, now, sessions, stores, bSQLiteDriver,
                   prev, nCalls, lastFetchStart>>

\* a slip that gives up on the body when the insert failed
LayerAfterPutIfStored(bRet, pszResult) ==
    IF bRet THEN OGRGeocodeBuildLayer(CPLParseXMLString(pszResult)) ELSE NULL

\* line 687, after the insert of line 686 returned bRet (which the code
\* does not look at)
LayerAfterPut(bRet, pszResult) ==
    OGRGeocodeBuildLayer(CPLParseXMLString(pszResult))

\* lines 685-687: OGRGeocodePutIntoCache() from taking the mutex to
\* releasing it, then the decoding of the body
CachePut(t, env) ==
    /\ pc[t] = "put"
    /\ CPLMutexHolderD(hMutex)
    /\ LET s == call[t].hSession
           pszResult == Deref(call[t].pszResult)
           r == OGRGeocodePutIntoCache(sessions[s], stores, bSQLiteDriver,
                                       call[t].osURL, pszResult, env)
           loc == r.hSession.poDS
       IN  /\ sessions' = [sessions EXCEPT ![s] = r.hSession]
           /\ stores' = r.stores
           /\ pc' = [pc EXCEPT ![t] = "done"]
           /\ call' = [call EXCEPT ![t].putURL = {call[t].osURL},
                          ![t].bPutOK = r.bRet,
                          ![t].bPutFirst =
                              /\ r.bRet
                              /\ FirstMatch(stores[Deref(loc)].rows,
                                            call[t].osURL) = 0,
                          ![t].hLayer = LayerAfterPut(r.bRet, pszResult)]
    /\ UNCHANGED <<unitVars, createVars, now, hMutex, dfLastQueryTimeStamp,
                   bSQLiteDriver, prev, nCalls, lastFetchStart, lastFetchEnd>>

\* line 698: the call returns hLayer to its caller
OGRGeocodeReturn(t) ==
    /\ pc[t] = "done"
    /\ pc' = [pc EXCEPT ![t] = "idle"]
    /\ call' = [call EXCEPT ![t] = IdleCall]
    /\ prev' = [prev EXCEPT ![t] =
                   IF call[t].pszResult # NULL
                   THEN {[hSession |-> call[t].hSession,
                          pszQuery |-> call[t].pszQuery,
                          hLayer |-> call[t].hLayer,
                          bPutOK |-> call[t].bPutOK,
                          bPutFirst |-> call[t].bPutFirst]}
                   ELSE NULL]
    /\ UNCHANGED <<unitVars, createVars, procVars, nCalls, lastFetchStart,
                   lastFetchEnd>>

\* A second of wall-clock time passes.  The clock is read at lines 655 and
\* 666 only, by a thread at "miss", "sleep" or "fetch": seconds that pass
\* while no thread is there are counted when the next thread gets there.
Tick ==
    /\ now < MaxTime
    /\ \E t \in Threads : pc[t] \in {"miss", "sleep", "fetch"}
    /\ now' = now + 1
    /\ UNCHANGED <<unitVars, createVars, hMutex, dfLastQueryTimeStamp,
                   sessions, stores, bSQLiteDriver, threadVars>>

QueryArguments == {NULL} \cup {{q} : q \in Queries}
StructuredArguments == {NULL, {"city=Paris"}}

\* every creation of a datasource, of the layer and of a row succeeds
ReliableEnv == [bCreateOK |-> TRUE, bMemOK |-> TRUE, bLayerOK |-> TRUE,
                bRowOK |-> TRUE]

\* Two threads, the SQLite driver registered, no PostgreSQL database.
Init == \E sc \in Scenarios : ProcessStart(sc, TRUE, FALSE)

\* Two threads calling OGRGeocode() with the free-text query or with none,
\* with a structured query or with none, on a file system that takes every
\* write.
Next ==
    \/ \E t \in Threads, s \in SessionIds, q \in QueryArguments,
          sq \in StructuredArguments : OGRGeocodeEnter(t, s, q, sq)
    \/ \E t \in Threads : CacheLookup(t)
    \/ \E t \in Threads : RateLimitEnter(t)
    \/ \E t \in Threads : SleepReturn(t)
    \/ \E t \in Threads : FetchUnthrottled(t)
    \/ \E t \in Threads, res \in FetchResults : FetchReturn(t, res)
    \/ \E t \in Threads : CachePut(t, ReliableEnv)
    \/ \E t \in Threads : OGRGeocodeReturn(t)
    \/ Tick

Spec == Init /\ [][Next]_vars

-----------------------------------------------------------------------------
(* Two threads that call OGRGeocode() and destroy sessions.  A session is  *)
(* destroyed by a thread that is in no call, when no call is running on it *)
(* and no thread is destroying it, and it is not used afterwards: anything *)
(* else is a use of freed memory by the caller.  A fetch fails or returns   *)
(* one body: what the body holds plays no part here.                       *)

\* what is left of a session after CPLFree(hSession), line 266
FreedSession == [bFreed |-> TRUE]

SessionInUse(s) ==
    \E u \in Threads : pc[u] # "idle" /\ call[u].hSession = s

\* lines 256-265: the strings are freed and the datasource, if one was
\* opened, is released; no mutex is taken
OGRGeocodeDestroySession(t, s) ==
    /\ pc[t] = "idle"
    /\ sessions[s] # FreedSession
    /\ ~SessionInUse(s)
    /\ pc' = [pc EXCEPT ![t] = "free"]
    /\ call' = [call EXCEPT ![t] =
                   [IdleCall EXCEPT !.hSession = s,
                                    !.bReleased = sessions[s].poDS # NULL]]
    /\ sessions' = [sessions EXCEPT ![s].poDS = NULL]
    /\ UNCHANGED <<unitVars, createVars, now, hMutex, dfLastQueryTimeStamp,
                   stores, bSQLiteDriver, prev, nCalls, lastFetchStart,
                   lastFetchEnd>>

\* line 266: the session itself is freed
DestroyReturn(t) ==
    /\ pc[t] = "free"
    /\ pc' = [pc EXCEPT ![t] = "idle"]
    /\ call' = [call EXCEPT ![t] = IdleCall]
    /\ sessions' = [sessions EXCEPT ![call[t].hSession] = FreedSession]
    /\ UNCHANGED <<unitVars, createVars, now, hMutex, dfLastQueryTimeStamp,
                   stores, bSQLiteDriver, prev, nCalls, lastFetchStart,
                   lastFetchEnd>>

DestroyNext ==
    \/ \E t \in Threads, s \in SessionIds, q \in Queries :
          /\ sessions[s] # FreedSession
          /\ ~(\E u \in Threads : pc[u] = "free" /\ call[u].hSession = s)
          /\ OGRGeocodeEnter(t, s, {q}, NULL)
    \/ \E t \in Threads : CacheLookup(t)
    \/ \E t \in Threads : RateLimitEnter(t)
    \/ \E t \in Threads : SleepReturn(t)
    \/ \E t \in Threads : FetchUnthrottled(t)
    \/ \E t \in Threads, res \in {"NULL", "<html>"} : FetchReturn(t, res)
    \/ \E t \in Threads : CachePut(t, ReliableEnv)
    \/ \E t \in Threads : OGRGeocodeReturn(t)
    \/ \E t \in Threads, s \in SessionIds : OGRGeocodeDestroySession(t, s)
    \/ \E t \in Threads : DestroyReturn(t)
    \/ Tick

DestroySpec == Init /\ [][DestroyNext]_vars

-----------------------------------------------------------------------------
(* The cache alone: URLs of two queries are looked up and inserted through *)
(* either session, each operation from taking the mutex to releasing it.   *)
(* The cache functions do not know which thread calls them: the lookups    *)
(* are made by the first.  call[t] holds the lookup thread t has just      *)
(* made, if it was the last operation, and prev[t] every hit it had: the   *)
(* store, the URL, the body returned and how many rows the store had.      *)

CacheQueries == Queries \cup {<<"b">>}

GetFromCache(t, s, pszQuery) ==
    /\ nCalls < MaxCacheOps
    /\ nCalls' = nCalls + 1
    /\ LET pszURL == CacheKey(sessions[s], pszQuery)
           r == OGRGeocodeGetFromCache(sessions[s], stores, bSQLiteDriver,
                                       pszURL)
       IN  /\ sessions' = [sessions EXCEPT ![s] = r.hSession]
           /\ stores' = r.stores
           /\ call' = [u \in Threads |->
                          IF u # t THEN IdleCall
                          ELSE [IdleCall EXCEPT !.hSession = s,
                                    !.osURL = pszURL, !.lookupURL = {pszURL},
                                    !.pszCachedResult = r.pszRet]]
           /\ prev' = [prev EXCEPT ![t] =
                          IF r.pszRet = NULL THEN @
                          ELSE @ \cup {[store |-> Deref(r.hSession.poDS),
                                        url |-> pszURL,
                                        body |-> Deref(r.pszRet),
                                        nRows |-> Len(r.stores[
                                           Deref(r.hSession.poDS)].rows)]}]
    /\ UNCHANGED <<unitVars, createVars, now, hMutex, dfLastQueryTimeStamp,
                   bSQLiteDriver, pc, lastFetchStart, lastFetchEnd>>

PutIntoCache(s, pszQuery, pszContent, env) ==
    /\ nCalls < MaxCacheOps
    /\ nCalls' = nCalls + 1
    /\ LET pszURL == CacheKey(sessions[s], pszQuery)
           r == OGRGeocodePutIntoCache(sessions[s], stores, bSQLiteDriver,
                                       pszURL, pszContent, env)
       IN  /\ sessions' = [sessions EXCEPT ![s] = r.hSession]
           /\ stores' = r.stores
           /\ call' = [u \in Threads |-> IdleCall]
    /\ UNCHANGED <<unitVars, createVars, now, hMutex, dfLastQueryTimeStamp,
                   bSQLiteDriver, pc, prev, lastFetchStart, lastFetchEnd>>

CacheNext ==
    \/ \E s \in SessionIds, q \in CacheQueries : GetFromCache(1, s, q)
    \/ \E s \in SessionIds, q \in CacheQueries, pszContent \in Bodies :
          PutIntoCache(s, q, pszContent, ReliableEnv)

CacheSpec == Init /\ [][CacheNext]_vars

-----------------------------------------------------------------------------
(* OGRGeocodeGetCacheLayer() alone, called as the lookup calls it (nothing *)
(* is created) and as the insert calls it, on the sessions of a scenario,  *)
(* in a process that has the SQLite driver or not, on a disk where each of *)
(* the cache locations holds a datasource or not, all of them with the     *)
(* layer or all without.  prev[1] holds the last call: the session, the    *)
(* arguments, what the environment let be created and the layer returned.  *)

DiskLocations == {DEFAULT_CACHE_SQLITE, DEFAULT_CACHE_CSV, "my.csv",
                  "PG:dbname=geocode"}

LayerInit ==
    \E sc \in Scenarios, drv \in BOOLEAN, onDisk \in SUBSET DiskLocations,
       bLayer \in BOOLEAN :
        /\ fmtTemplate = <<>>
        /\ fmtResult = NULL
        /\ decRoot = NULL
        /\ decLayer = NULL
        /\ papszOptions = NoOptions
        /\ configOptions = NoOptions
        /\ nSettings = 0
        /\ createPc = "setup"
        /\ hCreated = NULL
        /\ now = Epoch
        /\ hMutex = NULL
        /\ dfLastQueryTimeStamp = [k \in RateKinds |-> 0]
        /\ sessions =
             [s \in SessionIds |->
                Deref(OGRGeocodeCreateSession(IF s = 1 THEN sc.a ELSE sc.b,
                                              NoOptions))]
        /\ stores = [l \in Locations |->
                       IF l \in onDisk
                       THEN [exists |-> TRUE, layer |-> bLayer, rows |-> <<>>]
                       ELSE NoStore]
        /\ bSQLiteDriver = drv
        /\ pc = [t \in Threads |-> "idle"]
        /\ call = [t \in Threads |-> IdleCall]
        /\ prev = [t \in Threads |-> NULL]
        /\ nCalls = 0
        /\ lastFetchStart = [k \in RateKinds |-> NULL]
        /\ lastFetchEnd = [k \in RateKinds |-> NULL]

GetCacheLayer(s, bCreateIfNecessary, env) ==
    /\ nCalls < MaxCalls
    /\ nCalls' = nCalls + 1
    /\ LET r == OGRGeocodeGetCacheLayer(sessions[s], stores, bSQLiteDriver,
                                        bCreateIfNecessary, env)
       IN  /\ sessions' = [sessions EXCEPT ![s] = r.hSession]
           /\ stores' = r.stores
           /\ prev' = [prev EXCEPT ![1] =
                          {[hSession |-> s,
                            bCreateIfNecessary |-> bCreateIfNecessary,
                            env |-> env,
                            poLayer |-> r.poLayer]}]
    /\ UNCHANGED <<unitVars, createVars, now, hMutex, dfLastQueryTimeStamp,
                   bSQLiteDriver, pc, call, lastFetchStart, lastFetchEnd>>

\* line 405: the call made by OGRGeocodeGetFromCache()
GetCacheLayerForLookup(s) == GetCacheLayer(s, FALSE, NoEnv)

\* line 435: the call made by OGRGeocodePutIntoCache()
GetCacheLayerForInsert(s, env) == GetCacheLayer(s, TRUE, env)

LayerNext ==
    \/ \E s \in SessionIds : GetCacheLayerForLookup(s)
    \/ \E s \in SessionIds, env \in Envs :
          env.bRowOK /\ GetCacheLayerForInsert(s, env)

LayerSpec == LayerInit /\ [][LayerNext]_vars

-----------------------------------------------------------------------------
(* Two threads whose calls are all well formed, with what makes a call     *)
(* go on: a thread that can take a step takes it, every fetch returns      *)
(* (with no result or with a body) and the clock goes on while a thread    *)
(* sleeps.                                                                 *)

\* a second passes: as Tick, and also past MaxTime for a thread that sleeps
ClockTick ==
    /\ \/ /\ now < MaxTime
          /\ \E t \in Threads : pc[t] \in {"miss", "sleep", "fetch"}
       \/ \E t \in Threads : pc[t] = "sleep" /\ now < call[t].wake
    /\ now' = now + 1
    /\ UNCHANGED <<unitVars, createVars, hMutex, dfLastQueryTimeStamp,
                   sessions, stores, bSQLiteDriver, threadVars>>

FetchEnds(t) == \E res \in {"NULL", "<html>"} : FetchReturn(t, res)

\* the steps inside a call that do not go through the cache, and of the
\* clock
Progress ==
    \/ \E t \in Threads : RateLimitEnter(t)
    \/ \E t \in Threads : SleepReturn(t)
    \/ \E t \in Threads : FetchUnthrottled(t)
    \/ \E t \in Threads : FetchEnds(t)
    \/ \E t \in Threads : OGRGeocodeReturn(t)
    \/ ClockTick

\* The lookup and the insert of t as the scheduler sees them (lines 403,
\* 433): CacheLookup(t) and CachePut(t, env) can be taken as soon as t is
\* there and the mutex is free, whatever the cache holds, and they are the
\* steps that take t further from there.
CacheStep(t) ==
    /\ CPLMutexHolderD(hMutex)
    /\ \/ /\ pc[t] = "lookup"
          /\ \E goes \in {"miss", "done"} : pc' = [pc EXCEPT ![t] = goes]
       \/ /\ pc[t] = "put"
          /\ pc' = [pc EXCEPT ![t] = "done"]

LiveNext ==
    \/ \E t \in Threads, s \in SessionIds, q \in Queries :
          OGRGeocodeEnter(t, s, {q}, NULL)
    \/ \E t \in Threads : CacheLookup(t)
    \/ \E t \in Threads : RateLimitEnter(t)
    \/ \E t \in Threads : SleepReturn(t)
    \/ \E t \in Threads : FetchUnthrottled(t)
    \/ \E t \in Threads : FetchEnds(t)
    \/ \E t \in Threads : CachePut(t, ReliableEnv)
    \/ \E t \in Threads : OGRGeocodeReturn(t)
    \/ ClockTick

\* The threads start MaxCalls calls at most, so no behaviour takes steps
\* for ever, and a thread is left behind only where the behaviour stops:
\* it is enough that the behaviour does not stop while a step inside a
\* call, or of the clock, can be taken.
Fairness == WF_vars(Progress) /\ WF_pc(\E t \in Threads : CacheStep(t))

LiveSpec == Init /\ [][LiveNext]_vars /\ Fairness

-----------------------------------------------------------------------------
(* One call of OGRGeocode() in a process whose cache may fail: the SQLite  *)
(* driver registered or not, the PostgreSQL database reachable or not, and *)
(* each creation of a datasource, of the layer, of a row failing or not.   *)

UnreliableInit ==
    \E sc \in Scenarios, drv \in BOOLEAN, pgUp \in BOOLEAN :
        ProcessStart(sc, drv, pgUp)

UnreliableNext ==
    \/ \E s \in SessionIds, q \in Queries :
          nCalls = 0 /\ OGRGeocodeEnter(1, s, {q}, NULL)
    \/ CacheLookup(1)
    \/ RateLimitEnter(1)
    \/ FetchUnthrottled(1)
    \/ \E res \in FetchResults : FetchReturn(1, res)
    \/ \E env \in Envs : CachePut(1, env)
    \/ OGRGeocodeReturn(1)

UnreliableSpec == UnreliableInit /\ [][UnreliableNext]_vars

-----------------------------------------------------------------------------
(* Properties of the validator, under FormatSpec.                          *)

\* the length of the run of '%' that ends just before position i
PctBefore(t, i) ==
    Cardinality({j \in 1..(i - 1) : \A k \in j..(i - 1) : t[k] = "%"})

\* position i holds a '%' that is not the second half of a %% pair
OpensEscape(t, i) == t[i] = "%" /\ PctBefore(t, i) % 2 = 0

\* the positions of the placeholders %s of t
Placeholders(t) ==
    {i \in 1..(Len(t) - 1) : OpensEscape(t, i) /\ t[i + 1] = "s"}

\* exactly one placeholder, and every other '%' is in a %% pair
OnePlaceholder(t) ==
    /\ Cardinality(Placeholders(t)) = 1
    /\ \A i \in 1..Len(t) :
          OpensEscape(t, i) => i < Len(t) /\ t[i + 1] \in {"%", "s"}

\* C7: OGRGeocodeHasStringValidFormat() accepts a template if and only if
\* the template has exactly one placeholder %s outside the %% pairs and
\* every other '%' of it belongs to a %% pair; so it rejects a template
\* with no placeholder, with two or more, with a '%' followed by a
\* character other than '%' and 's', and with a lone '%' at its end.
ValidatorAcceptsExactlyOnePlaceholder ==
    fmtResult # NULL =>
        /\ Deref(fmtResult) = OnePlaceholder(fmtTemplate)
        /\ Placeholders(fmtTemplate) = {} => ~Deref(fmtResult)
        /\ Cardinality(Placeholders(fmtTemplate)) >= 2 => ~Deref(fmtResult)
        /\ (\E i \in 1..(Len(fmtTemplate) - 1) :
               /\ OpensEscape(fmtTemplate, i)
               /\ fmtTemplate[i + 1] \notin {"%", "s"}) => ~Deref(fmtResult)
        /\ (/\ fmtTemplate # <<>>
            /\ OpensEscape(fmtTemplate, Len(fmtTemplate))) => ~Deref(fmtResult)

\* an accepted template with an escaped pair before its placeholder
AcceptedEscapedTemplate ==
    /\ fmtTemplate = <<"%", "%", "%", "s">>
    /\ fmtResult = {TRUE}

-----------------------------------------------------------------------------
(* Properties of session creation, under CreateSpec.                       *)

\* the value of option k: the caller's option, else the process-wide
\* setting, else the default d
Expected(k, d) ==
    IF papszOptions[k] # NULL THEN papszOptions[k]
    ELSE IF configOptions[k] # NULL THEN configOptions[k]
    ELSE d

ExpectedService == Deref(Expected("SERVICE", {"OSM_NOMINATIM"}))

ExpectedTemplate ==
    Expected("QUERY_TEMPLATE",
             CASE ExpectedService = "OSM_NOMINATIM" -> {OSM_NOMINATIM_QUERY}
               [] ExpectedService = "MAPQUEST_NOMINATIM"
                    -> {MAPQUEST_NOMINATIM_QUERY}
               [] OTHER -> NULL)

ExpectedCacheFile == Deref(Expected("CACHE_FILE", {DEFAULT_CACHE_SQLITE}))

CacheFileRefused ==
    /\ ~StartsWithPG(ExpectedCacheFile)
    /\ CPLGetExtension(ExpectedCacheFile) \notin {"csv", "sqlite"}

\* C8: OGRGeocodeCreateSession() returns NULL whenever the cache location
\* neither starts with "PG:" nor has the extension csv or sqlite, or no
\* template can be resolved, or the template fails validation; in every
\* other case it returns a session, complete, whose template passed
\* validation.
CreateSessionFailsOrIsValid ==
    createPc = "returned" =>
        /\ hCreated = NULL <=>
              \/ CacheFileRefused
              \/ ExpectedTemplate = NULL
              \/ ~OnePlaceholder(Deref(ExpectedTemplate))
        /\ hCreated # NULL =>
              /\ OnePlaceholder(Deref(hCreated).pszQueryTemplate)
              /\ Deref(hCreated).pszQueryTemplate = Deref(ExpectedTemplate)
              /\ Deref(hCreated).pszCacheFilename = ExpectedCacheFile
              /\ Deref(hCreated).pszGeocodingService = ExpectedService
              /\ Deref(hCreated).poDS = NULL

\* creation refused for a template without placeholder, on a good cache file
RefusedForTemplate ==
    /\ createPc = "returned"
    /\ hCreated = NULL
    /\ ~CacheFileRefused
    /\ ExpectedTemplate # NULL
    /\ Placeholders(Deref(ExpectedTemplate)) = {}

\* C9: for each recognized option the session uses the caller's option if
\* present, else the process-wide setting OGR_GEOCODE_<key> if set, else
\* the default: READ_CACHE and WRITE_CACHE on, SERVICE OSM_NOMINATIM, DELAY
\* 1.0, no EMAIL, no extra parameters, the template of the service preset.
SessionUsesOptionThenSettingThenDefault ==
    createPc = "returned" /\ hCreated # NULL =>
        LET h == Deref(hCreated)
        IN  /\ h.pszCacheFilename = ExpectedCacheFile
            /\ h.bReadCache =
                 (Deref(Expected("READ_CACHE", {"TRUE"}))
                     \notin {"NO", "FALSE", "OFF", "0"})
            /\ h.bWriteCache =
                 (Deref(Expected("WRITE_CACHE", {"TRUE"}))
                     \notin {"NO", "FALSE", "OFF", "0"})
            /\ h.pszGeocodingService = ExpectedService
            /\ h.pszEmail = Expected("EMAIL", NULL)
            /\ h.pszApplication =
                 Deref(Expected("APPLICATION", {GDALVersionInfo}))
            /\ h.dfDelayBetweenQueries =
                 (CASE Expected("DELAY", {"1.0"}) = {"0"} -> 0
                    [] Expected("DELAY", {"1.0"}) = {"1.0"} -> 1
                    [] Expected("DELAY", {"1.0"}) = {"2"} -> 2)
            /\ h.pszQueryTemplate = Deref(ExpectedTemplate)
            /\ h.pszExtraQueryParameters =
                 Expected("EXTRA_QUERY_PARAMETERS", NULL)

\* a session made with DELAY given both ways, and EMAIL as a setting only
OptionOverridesSetting ==
    /\ createPc = "returned"
    /\ hCreated # NULL
    /\ papszOptions["DELAY"] = {"2"}
    /\ configOptions["DELAY"] = {"0"}
    /\ papszOptions["EMAIL"] = NULL
    /\ configOptions["EMAIL"] # NULL

-----------------------------------------------------------------------------
(* Properties of OGRGeocode(), under Spec.                                 *)

\* thread t is in a call that follows, in t, a call with the same free-text
\* query on the same session whose fetch returned a body, and the session
\* reads and writes the cache
RepeatsPreviousCall(t) ==
    /\ pc[t] # "idle"
    /\ prev[t] # NULL
    /\ call[t].hSession = Deref(prev[t]).hSession
    /\ call[t].pszQuery # NULL
    /\ call[t].pszQuery = Deref(prev[t]).pszQuery
    /\ call[t].papszStructuredQuery = NULL
    /\ sessions[call[t].hSession].bReadCache
    /\ sessions[call[t].hSession].bWriteCache

\* the call of t goes from the lookup to its return without a fetch, and
\* returns what the previous call of t returned
AnsweredAsPreviousCall(t) ==
    /\ pc[t] \in {"lookup", "done"}
    /\ pc[t] = "done" =>
          /\ call[t].fetchURL = NULL
          /\ call[t].pszCachedResult # NULL
          /\ call[t].hLayer = Deref(prev[t]).hLayer

\* C1 as stated: the second of two sequential calls with the same free-text
\* query, on a session that reads and writes the cache, fetches nothing and
\* returns the record set of the first call, whose fetch returned a body.
SecondCallServedFromCache ==
    \A t \in Threads : RepeatsPreviousCall(t) => AnsweredAsPreviousCall(t)

\* C1, amended: the same, when the first call's insert into the cache
\* succeeded and was the first entry of the cache for the URL.
SecondCallServedFromCacheWhenStored ==
    \A t \in Threads :
        RepeatsPreviousCall(t) /\ Deref(prev[t]).bPutFirst
            => AnsweredAsPreviousCall(t)

\* a second call returning, from the cache, the two records of the first
SecondCallReturnsCachedRecords ==
    \E t \in Threads :
        /\ RepeatsPreviousCall(t)
        /\ Deref(prev[t]).bPutFirst
        /\ pc[t] = "done"
        /\ call[t].hLayer # NULL
        /\ Len(Deref(call[t].hLayer).features) = 2

\* C2: a fetch to a throttled service kind starts at least the DELAY of the
\* session that issues it after the completion of the previous fetch to
\* that kind, whatever thread and session issued that one.
FetchWaitsForSessionDelay ==
    \A t \in Threads :
        /\ pc[t] = "fetch"
        /\ RateKind(sessions[call[t].hSession]) # NULL
        /\ call[t].prevEnd # NULL
        => call[t].fetchStart - Deref(call[t].prevEnd)
              >= sessions[call[t].hSession].dfDelayBetweenQueries

\* the second thread fetches after sleeping two seconds behind the first
SecondThreadSleptBeforeFetch ==
    /\ pc[2] = "fetch"
    /\ call[2].bSlept
    /\ call[2].prevEnd # NULL
    /\ sessions[call[2].hSession].dfDelayBetweenQueries = 2
    /\ call[2].fetchStart = Deref(call[2].prevEnd) + 2

\* C3: any two fetches to OSM_NOMINATIM start at least one second apart,
\* whatever DELAY the sessions were created with.
OsmFetchesOneSecondApart ==
    \A t \in Threads :
        /\ pc[t] = "fetch"
        /\ sessions[call[t].hSession].pszGeocodingService = "OSM_NOMINATIM"
        /\ call[t].prevStart # NULL
        => call[t].fetchStart - Deref(call[t].prevStart) >= 1

\* C4: when the lookup of the email-less URL hits, the call goes straight
\* to its return: it fetches nothing, leaves both time stamps and the cache
\* contents as they are, does not sleep and does not enter the critical
\* section of the rate limiter.
HitStep(t) ==
    /\ pc[t] = "lookup"
    /\ pc'[t] # "lookup"
    /\ call'[t].pszCachedResult # NULL
    => /\ pc'[t] = "done"
       /\ call'[t].lookupURL = {call[t].osURL}
       /\ call'[t].fetchURL = NULL
       /\ call'[t].putURL = NULL
       /\ ~call'[t].bLocked
       /\ ~call'[t].bSlept
       /\ UNCHANGED <<dfLastQueryTimeStamp, hMutex, stores, lastFetchStart,
                      lastFetchEnd>>

HitReturnStep(t) ==
    /\ pc[t] = "done"
    /\ pc'[t] = "idle"
    /\ call[t].pszCachedResult # NULL
    => UNCHANGED <<dfLastQueryTimeStamp, hMutex, stores, sessions,
                   lastFetchStart, lastFetchEnd>>

CacheHitTouchesNothing ==
    [][\A t \in Threads : HitStep(t) /\ HitReturnStep(t)]_vars

\* a call about to return the records of a cache hit
ReturningCacheHit ==
    \E t \in Threads :
        /\ pc[t] = "done"
        /\ call[t].pszCachedResult # NULL
        /\ call[t].hLayer # NULL

\* C5: a call with neither a free-text query nor a structured query, with
\* both, or with a structured query alone returns no result, and does no
\* cache lookup, no cache insert and no fetch; it leaves the time stamps
\* and the session as they are.
BadArguments(pszQuery, papszStructuredQuery) ==
    \/ pszQuery = NULL /\ papszStructuredQuery = NULL
    \/ pszQuery # NULL /\ papszStructuredQuery # NULL
    \/ pszQuery = NULL /\ papszStructuredQuery # NULL

RejectedStep(t) ==
    /\ pc[t] = "idle"
    /\ pc'[t] # "idle"
    /\ BadArguments(call'[t].pszQuery, call'[t].papszStructuredQuery)
    => /\ pc'[t] = "done"
       /\ call'[t].hLayer = NULL
       /\ call'[t].lookupURL = NULL
       /\ call'[t].putURL = NULL
       /\ call'[t].fetchURL = NULL
       /\ UNCHANGED <<dfLastQueryTimeStamp, hMutex, stores, sessions,
                      lastFetchStart, lastFetchEnd>>

RejectedReturnStep(t) ==
    /\ pc[t] = "done"
    /\ pc'[t] = "idle"
    /\ BadArguments(call[t].pszQuery, call[t].papszStructuredQuery)
    => /\ call[t].hLayer = NULL
       /\ UNCHANGED <<dfLastQueryTimeStamp, hMutex, stores, sessions,
                      lastFetchStart, lastFetchEnd>>

BadArgumentsRejected ==
    [][\A t \in Threads : RejectedStep(t) /\ RejectedReturnStep(t)]_vars

\* a call with both a free-text and a structured query, about to return
RejectedCallWithBothQueries ==
    \E t \in Threads :
        /\ pc[t] = "done"
        /\ call[t].pszQuery # NULL
        /\ call[t].papszStructuredQuery # NULL
        /\ call[t].hLayer = NULL

\* C6: the cache key does not depend on the contact email.  Two sessions
\* that differ only in EMAIL look the same query up, and insert it, under
\* the same key, so that an entry written by one is a hit for the other on
\* the store they share; the email parameter is in the URL that is fetched
\* only, and only for OSM_NOMINATIM with an email.
DifferOnlyInEmail(h1, h2) ==
    [h1 EXCEPT !.pszEmail = NULL, !.poDS = NULL,
               !.pszCacheFilename = DEFAULT_CACHE_SQLITE]
      = [h2 EXCEPT !.pszEmail = NULL, !.poDS = NULL,
                   !.pszCacheFilename = DEFAULT_CACHE_SQLITE]

KeyStep(t) ==
    /\ pc[t] = "idle"
    /\ pc'[t] \in {"lookup", "miss"}
    => \A o \in SessionIds :
          DifferOnlyInEmail(sessions[call'[t].hSession], sessions[o])
             => call'[t].osURL = CacheKey(sessions[o], Deref(call'[t].pszQuery))

OtherSessionEntryHits(t) ==
    /\ pc[t] = "lookup"
    /\ pc'[t] # "lookup"
    => \A o \in SessionIds :
          /\ DifferOnlyInEmail(sessions[call[t].hSession], sessions[o])
          /\ sessions[o].poDS # NULL
          /\ sessions'[call[t].hSession].poDS = sessions[o].poDS
          /\ \E i \in 1..Len(stores[Deref(sessions[o].poDS)].rows) :
                stores[Deref(sessions[o].poDS)].rows[i][1] =
                    CacheKey(sessions[o], Deref(call[t].pszQuery))
          => call'[t].pszCachedResult # NULL

CacheUsesKeyStep(t) ==
    /\ (pc[t] = "lookup" /\ pc'[t] # "lookup"
           => call'[t].lookupURL = {call[t].osURL})
    /\ (pc[t] = "put" /\ pc'[t] # "put"
           => call'[t].putURL = {call[t].osURL})

FetchURLStep(t) ==
    /\ pc[t] # "fetch"
    /\ pc'[t] = "fetch"
    => call'[t].fetchURL =
          IF /\ sessions[call[t].hSession].pszGeocodingService = "OSM_NOMINATIM"
             /\ sessions[call[t].hSession].pszEmail # NULL
          THEN {call[t].osURL \o <<"&", "e", "m", "a", "i", "l", "=">>
                  \o CPLEscapeURL(Deref(sessions[call[t].hSession].pszEmail))}
          ELSE {call[t].osURL}

CacheKeyIgnoresEmail ==
    [][\A t \in Threads :
          /\ KeyStep(t)
          /\ OtherSessionEntryHits(t)
          /\ CacheUsesKeyStep(t)
          /\ FetchURLStep(t)]_vars

\* the session without email hits the entry the session with email wrote
HitOnEntryOfSessionWithEmail ==
    \E t \in Threads :
        /\ pc[t] = "done"
        /\ call[t].pszCachedResult # NULL
        /\ sessions[call[t].hSession].pszEmail = NULL
        /\ \E u \in Threads :
              /\ prev[u] # NULL
              /\ Deref(prev[u]).bPutFirst
              /\ Deref(prev[u]).hSession # call[t].hSession
              /\ sessions[Deref(prev[u]).hSession].pszEmail # NULL
              /\ Deref(prev[u]).pszQuery = call[t].pszQuery

-----------------------------------------------------------------------------
(* Properties of the decoder, under DecodeSpec.                            *)

\* the place elements of the decoded document, in document order
PlacesOf(psRoot) ==
    SelectSeq(Deref(Deref(psRoot).searchresults),
              LAMBDA c : c.eType = "CXT_Element" /\ c.pszValue = "place")

\* the place carries a value named pszName
HasValue(psPlace, pszName) ==
    \E i \in 1..Len(psPlace.psChild) :
        /\ psPlace.psChild[i].pszValue = pszName
        /\ psPlace.psChild[i].pszVal # NULL

\* the number the place carries under pszName
ValueOf(psPlace, pszName) ==
    LET i == CHOOSE j \in 1..Len(psPlace.psChild) :
                /\ psPlace.psChild[j].pszValue = pszName
                /\ psPlace.psChild[j].pszVal # NULL
    IN  TextToNumber(Deref(psPlace.psChild[i].pszVal))

Decoded == decLayer # NULL /\ Deref(decLayer) # NULL

\* C10: every record of the decoded set, at any position, whose place
\* carries a longitude and a latitude and no geometry text has the point
\* (lon, lat) of that place for geometry; a record whose place lacks a
\* coordinate and the geometry text has no geometry.
EveryPlaceWithCoordinatesHasPoint ==
    Decoded =>
        LET places   == PlacesOf(decRoot)
            features == Deref(Deref(decLayer)).features
        IN  /\ Len(features) = Len(places)
            /\ \A k \in 1..Len(places) :
                 /\ (/\ HasValue(places[k], "lon")
                     /\ HasValue(places[k], "lat")
                     /\ ~HasValue(places[k], "geotext"))
                    => features[k].geom =
                          {[type |-> "POINT",
                            x |-> ValueOf(places[k], "lon"),
                            y |-> ValueOf(places[k], "lat")]}
                 /\ (/\ ~(HasValue(places[k], "lon")
                            /\ HasValue(places[k], "lat"))
                     /\ ~HasValue(places[k], "geotext"))
                    => features[k].geom = NULL

\* the text the place carries under pszName (the last one, as the second
\* iteration of the decoder overwrites)
TextOf(psPlace, pszName) ==
    LET i == CHOOSE j \in 1..Len(psPlace.psChild) :
                /\ psPlace.psChild[j].pszValue = pszName
                /\ psPlace.psChild[j].pszVal # NULL
                /\ \A l \in (j + 1)..Len(psPlace.psChild) :
                      ~(/\ psPlace.psChild[l].pszValue = pszName
                        /\ psPlace.psChild[l].pszVal # NULL)
    IN  Deref(psPlace.psChild[i].pszVal)

\* the record has the scalar attribute pszName with the place's number
KeepsScalar(psPlace, poFeature, pszName) ==
    HasValue(psPlace, pszName) =>
        /\ pszName \in DOMAIN poFeature.fields
        /\ poFeature.fields[pszName] = ValueOf(psPlace, pszName)

\* the geometry of a record is the parsed geometry text of its place
GeotextIsGeometry(psPlace, poFeature) ==
    /\ HasValue(psPlace, "geotext")
    /\ createFromWkt(TextOf(psPlace, "geotext")) # NULL
    => /\ poFeature.geom = createFromWkt(TextOf(psPlace, "geotext"))
       /\ KeepsScalar(psPlace, poFeature, "lon")
       /\ KeepsScalar(psPlace, poFeature, "lat")

\* a geometry text that does not parse leaves the point of lon and lat
BadGeotextFallsBack(psPlace, poFeature) ==
    /\ HasValue(psPlace, "geotext")
    /\ createFromWkt(TextOf(psPlace, "geotext")) = NULL
    => poFeature.geom =
          IF HasValue(psPlace, "lon") /\ HasValue(psPlace, "lat")
          THEN {[type |-> "POINT", x |-> ValueOf(psPlace, "lon"),
                 y |-> ValueOf(psPlace, "lat")]}
          ELSE NULL

\* C11: a place whose geometry text parses gives a record with that parsed
\* geometry, whatever the order of geotext, lon and lat and whether lon and
\* lat are there, and lon and lat stay scalar attributes of the record; a
\* geometry text that does not parse leaves the record with the point of
\* lon and lat when both are there, and the decoding does not fail.
GeotextOverridesPointOrFallsBack ==
    Decoded =>
        LET places   == PlacesOf(decRoot)
            features == Deref(Deref(decLayer)).features
        IN  /\ Len(features) = Len(places)
            /\ \A k \in 1..Len(places) :
                  /\ GeotextIsGeometry(places[k], features[k])
                  /\ BadGeotextFallsBack(places[k], features[k])

\* the part of C11 about a geometry text that parses, on its own
ParsedGeotextIsTheGeometry ==
    Decoded =>
        \A k \in 1..Len(PlacesOf(decRoot)) :
            GeotextIsGeometry(PlacesOf(decRoot)[k],
                              Deref(Deref(decLayer)).features[k])

-----------------------------------------------------------------------------
(* Properties of OGRGeocode() about the bodies it decodes, under Spec.     *)

\* the body the call of t decodes: the one of the cache or the one fetched
BodyOf(t) ==
    IF call[t].pszCachedResult # NULL THEN call[t].pszCachedResult
    ELSE call[t].pszResult

\* the body is XML with a searchresults element
HasSearchResults(pszContent) ==
    /\ CPLParseXMLString(pszContent) # NULL
    /\ Deref(CPLParseXMLString(pszContent)).searchresults # NULL

\* C12: the decoder gives no result, and no partial record set, for a body
\* that is not XML or has no searchresults element; a call of OGRGeocode()
\* that got such a body, from the network or from the cache, returns NULL.
UndecodableBodyGivesNoResult ==
    /\ \A b \in Bodies :
          ~HasSearchResults(b)
             => OGRGeocodeBuildLayer(CPLParseXMLString(b)) = NULL
    /\ OGRGeocodeBuildLayer(NULL) = NULL
    /\ \A t \in Threads :
          /\ pc[t] = "done"
          /\ BodyOf(t) # NULL
          /\ ~HasSearchResults(Deref(BodyOf(t)))
          => call[t].hLayer = NULL

\* a call returns NULL for a body of the cache that is not XML
MalformedCachedBodyReturned ==
    \E t \in Threads :
        /\ pc[t] = "done"
        /\ call[t].pszCachedResult # NULL
        /\ CPLParseXMLString(Deref(call[t].pszCachedResult)) = NULL
        /\ call[t].hLayer = NULL

-----------------------------------------------------------------------------
(* Properties of the decoder about the records, under DecodeSpec.          *)

\* the names under which the place carries a value, geotext apart
ValueNames(psPlace) ==
    {psPlace.psChild[i].pszValue : i \in
        {j \in 1..Len(psPlace.psChild) :
            /\ psPlace.psChild[j].pszVal # NULL
            /\ psPlace.psChild[j].pszValue # "geotext"}}

\* the scalar attributes of the record of a place
ScalarsOf(psPlace) ==
    [n \in ValueNames(psPlace) |->
        IF n \in {"lat", "lon", "place_rank"}
        THEN TextToNumber(TextOf(psPlace, n))
        ELSE TextOf(psPlace, n)]

\* C13: for a body with a searchresults element the decoder succeeds and
\* returns one record per place child element, in document order; the
\* other children give no record, and a searchresults element without any
\* place gives a record set with zero records.
OneRecordPerPlaceInOrder ==
    /\ decLayer # NULL
    /\ decRoot # NULL
    /\ Deref(decRoot).searchresults # NULL
    => /\ Deref(decLayer) # NULL
       /\ LET places   == PlacesOf(decRoot)
              features == Deref(Deref(decLayer)).features
          IN  /\ Len(features) = Len(places)
              /\ \A k \in 1..Len(places) :
                    features[k].fields = ScalarsOf(places[k])
              /\ places = <<>> => features = <<>>

\* two different places around a child that is no place: two records
TwoPlacesAroundOtherChild ==
    /\ Decoded
    /\ Len(Deref(Deref(decRoot).searchresults)) = 3
    /\ Deref(Deref(decRoot).searchresults)[2].pszValue = "other"
    /\ Len(Deref(Deref(decLayer)).features) = 2
    /\ Deref(Deref(decLayer)).features[1].fields # 
          Deref(Deref(decLayer)).features[2].fields

-----------------------------------------------------------------------------
(* Properties of OGRGeocode() about failed fetches, under Spec.            *)

\* all the rows of all the stores
AllRows == [l \in Locations |-> stores[l].rows]

\* the fetch of t returns without a body: the call ends with no result and
\* no insert
FailedFetchStep(t) ==
    /\ pc[t] = "fetch"
    /\ pc'[t] # "fetch"
    /\ call'[t].pszResult = NULL
    => /\ pc'[t] = "done"
       /\ call'[t].hLayer = NULL
       /\ call'[t].putURL = NULL
       /\ stores' = stores

FailedFetchReturnStep(t) ==
    /\ pc[t] = "done"
    /\ pc'[t] = "idle"
    /\ call[t].fetchURL # NULL
    /\ call[t].pszResult = NULL
    => /\ call[t].hLayer = NULL
       /\ call[t].putURL = NULL
       /\ stores' = stores

\* a row is added by a call that fetched a body, which is the row's body
RowsAddedAfterBodyOnly ==
    AllRows' # AllRows =>
        \E t \in Threads :
            /\ pc[t] = "put"
            /\ pc'[t] = "done"
            /\ call[t].fetchURL # NULL
            /\ call[t].pszResult # NULL
            /\ \E l \in Locations :
                  stores'[l].rows =
                      Append(stores[l].rows,
                             <<call[t].osURL, Deref(call[t].pszResult)>>)

\* C14: when the fetch fails or gives no usable body the call returns no
\* result and inserts nothing into the cache, WRITE_CACHE or not: a cache
\* entry is made only after a fetch that returned a body.
FailedFetchInsertsNothing ==
    [][/\ \A t \in Threads : FailedFetchStep(t) /\ FailedFetchReturnStep(t)
       /\ \A t \in Threads : pc'[t] = "put" => call'[t].pszResult # NULL
       /\ RowsAddedAfterBodyOnly]_vars

\* a call on a session that writes the cache returns after a failed fetch
FailedFetchOnWritingSession ==
    \E t \in Threads :
        /\ pc[t] = "done"
        /\ call[t].fetchURL # NULL
        /\ call[t].pszResult = NULL
        /\ sessions[call[t].hSession].bWriteCache
        /\ call[t].hLayer = NULL

-----------------------------------------------------------------------------
(* Properties of OGRGeocode() on a failing cache, under UnreliableSpec.    *)

\* the lookup of t cannot open the store: the call goes on as on a miss
UnopenedStoreIsMiss(t) ==
    /\ pc[t] = "lookup"
    /\ pc'[t] # "lookup"
    /\ sessions'[call[t].hSession].poDS = NULL
    => /\ pc'[t] = "miss"
       /\ call'[t].pszCachedResult = NULL
       /\ call'[t].hLayer = NULL

\* the insert of t ends, well or not: the fetched body is decoded
InsertOutcomeIgnored(t) ==
    /\ pc[t] = "put"
    /\ pc'[t] # "put"
    => /\ pc'[t] = "done"
       /\ call'[t].hLayer =
             OGRGeocodeBuildLayer(CPLParseXMLString(Deref(call[t].pszResult)))
       /\ ~call'[t].bPutOK => AllRows' = AllRows

\* a call that missed goes to the fetch and no further lookup
MissGoesToFetch(t) ==
    /\ pc[t] = "miss"
    /\ pc'[t] # "miss"
    => pc'[t] = "fetch" /\ call'[t].fetchURL = {call[t].osURLWithEmail}

\* C15: a failure of the cache does not change what a call returns.  When
\* the store cannot be opened for the lookup the call goes on to the fetch
\* as on a miss; when the insert fails (no store opened or created, or the
\* row not appended) the call decodes the fetched body and returns the
\* record set it returns when the insert succeeds.
CacheFailureKeepsOutcome ==
    [][\A t \in Threads :
          /\ UnopenedStoreIsMiss(t)
          /\ MissGoesToFetch(t)
          /\ InsertOutcomeIgnored(t)]_vars

\* a call returns two records though the store was opened and the row
\* could not be appended
RecordsReturnedAfterFailedAppend ==
    \E t \in Threads :
        /\ pc[t] = "done"
        /\ call[t].putURL # NULL
        /\ ~call[t].bPutOK
        /\ sessions[call[t].hSession].poDS # NULL
        /\ call[t].hLayer # NULL
        /\ Len(Deref(call[t].hLayer).features) = 2

-----------------------------------------------------------------------------
(* Properties of the rate limiter and of the mutex, under Spec.            *)

\* the call of t is on a session of a service that is neither of the two
\* throttled ones
OnOtherService(t) ==
    /\ pc[t] # "idle"
    /\ sessions[call[t].hSession].pszGeocodingService
          \notin {"OSM_NOMINATIM", "MAPQUEST_NOMINATIM"}

\* t, on such a session, goes from the miss to the end of its fetch
OtherServiceFetchStep(t) ==
    /\ OnOtherService(t)
    /\ pc[t] \in {"miss", "fetch"}
    /\ pc'[t] # pc[t]

\* C16: a fetch for a session whose service is neither OSM_NOMINATIM nor
\* MAPQUEST_NOMINATIM starts at once whatever the DELAY of the session,
\* neither takes nor releases the mutex, and leaves both time stamps as
\* they are.
OtherServiceNotThrottled ==
    [][\A t \in Threads :
          OtherServiceFetchStep(t)
          => /\ hMutex' = hMutex
             /\ dfLastQueryTimeStamp' = dfLastQueryTimeStamp
             /\ pc'[t] # "sleep"
             /\ ~call'[t].bLocked
             /\ ~call'[t].bSlept
             /\ pc[t] = "miss"
                  => pc'[t] = "fetch" /\ call'[t].fetchStart = now]_vars

\* two threads are fetching at once for a session of another service that
\* has a DELAY of two seconds
OtherServiceFetchesOverlap ==
    /\ \A t \in Threads :
          /\ OnOtherService(t)
          /\ pc[t] = "fetch"
          /\ sessions[call[t].hSession].dfDelayBetweenQueries = 2
          /\ call[t].fetchStart = now
    /\ hMutex = NULL


\* t is inside the rate-limited section of lines 650-668
InRateLimitedSection(t) ==
    /\ pc[t] \in {"sleep", "fetch"}
    /\ ~OnOtherService(t)

\* at most one thread is in the section, and it holds the mutex
OneThreadInSection ==
    \A t, u \in Threads :
        InRateLimitedSection(t)
        => /\ hMutex = {t}
           /\ call[t].bLocked
           /\ InRateLimitedSection(u) => u = t

\* a throttled fetch begins after the throttled fetch before it, of
\* either kind and of any session, has returned
ThrottledFetchesOrdered ==
    \A t \in Threads :
        InRateLimitedSection(t) /\ pc[t] = "fetch"
        => \A k \in RateKinds :
              lastFetchStart[k] # NULL
              => \/ lastFetchEnd[k] # NULL
                    /\ Deref(lastFetchStart[k]) <= Deref(lastFetchEnd[k])
                    /\ Deref(lastFetchEnd[k]) <= call[t].fetchStart
                 \/ /\ RateKind(sessions[call[t].hSession]) = {k}
                    /\ lastFetchStart[k] = {call[t].fetchStart}

\* while t is in the section, u neither reads its timer nor looks up nor
\* inserts
OthersKeptOut(t, u) ==
    /\ InRateLimitedSection(t)
    /\ u # t
    /\ \/ pc[u] \in {"lookup", "put"}
       \/ pc[u] = "miss" /\ ~OnOtherService(u)
    => /\ pc'[u] = pc[u]
       /\ call'[u] = call[u]

\* C17: at most one thread is in the rate-limited section, whatever the
\* throttled kinds and the sessions; throttled fetches follow each other;
\* and while a thread sleeps or fetches there no other thread enters the
\* section, looks up the cache or inserts into it.
RateLimitedSectionExclusive ==
    /\ []OneThreadInSection
    /\ []ThrottledFetchesOrdered
    /\ [][\A t, u \in Threads : OthersKeptOut(t, u)]_vars

\* a thread fetches in the section of one kind while the other thread,
\* whose session is of the other kind and has no delay, waits to enter it
OtherKindWaitsForFetch ==
    \E t, u \in Threads :
        /\ pc[t] = "fetch"
        /\ pc[u] = "miss"
        /\ RateKind(sessions[call[t].hSession]) = {"MAPQUEST"}
        /\ RateKind(sessions[call[u].hSession]) = {"OSM"}
        /\ sessions[call[u].hSession].dfDelayBetweenQueries = 0

-----------------------------------------------------------------------------
(* Who touches the datasource handle of a session, under DestroySpec.      *)

\* t opens, creates, looks up or inserts into the cache of its session
CacheAccessStep(t) ==
    /\ pc[t] \in {"lookup", "put"}
    /\ pc'[t] # pc[t]

\* t releases the datasource of a session it destroys
ReleaseStep(t) ==
    /\ pc[t] = "idle"
    /\ pc'[t] = "free"
    /\ call'[t].bReleased

\* no thread other than t holds the mutex: t holds it or can take it
NoOtherHolder(t) == hMutex \subseteq {t}

\* C18, as stated: every open or creation, lookup, insert and release of
\* the datasource handle of a session is done by a thread that holds the
\* mutex, the release by OGRGeocodeDestroySession() included.
HandleAlwaysUnderLock ==
    [][\A t \in Threads :
          CacheAccessStep(t) \/ ReleaseStep(t) => NoOtherHolder(t)]_vars

\* C18, amended: the handle of a session is opened, created, looked up
\* and inserted into under the mutex only, and it is set by such a step
\* only; OGRGeocodeDestroySession() releases it without a look at the
\* mutex, and does so only when no call is running on the session.
HandleUnderLockExceptRelease ==
    [][/\ \A t \in Threads :
             /\ CacheAccessStep(t) => hMutex = NULL /\ hMutex' = NULL
             /\ ReleaseStep(t)
                  => /\ hMutex' = hMutex
                     /\ ~SessionInUse(call'[t].hSession)
       /\ \A s \in SessionIds :
             sessions[s] # FreedSession /\ sessions'[s] # FreedSession
             /\ sessions'[s].poDS # sessions[s].poDS
             => \/ \E t \in Threads :
                      CacheAccessStep(t) /\ call[t].hSession = s
                \/ \E t \in Threads :
                      ReleaseStep(t) /\ call'[t].hSession = s]_vars

\* a thread has released the datasource of a session while the other
\* thread holds the mutex
ReleasedWhileMutexHeld ==
    \E t \in Threads :
        /\ pc[t] = "free"
        /\ call[t].bReleased
        /\ hMutex # NULL
        /\ hMutex # {t}

-----------------------------------------------------------------------------
(* Properties of the cache, under CacheSpec.                               *)

\* the rows of a store that hold the URL, in the order of the store
RowsFor(rows, pszURL) == SelectSeq(rows, LAMBDA row : row[1] = pszURL)

\* what a lookup of the URL in the store gives: no body, or the body of
\* the first row that holds the URL
BodyOfFirst(st, pszURL) ==
    IF ~st.exists \/ ~st.layer \/ RowsFor(st.rows, pszURL) = <<>>
    THEN NULL
    ELSE {Head(RowsFor(st.rows, pszURL))[2]}

\* the rows a store has are those it had, followed by what was added
AppendOnly ==
    \A l \in Locations :
        /\ stores[l].exists => stores'[l].exists
        /\ stores[l].layer => stores'[l].layer
        /\ Len(stores'[l].rows) >= Len(stores[l].rows)
        /\ SubSeq(stores'[l].rows, 1, Len(stores[l].rows)) = stores[l].rows

\* the last lookup of t returned the body of the first row with its URL
LookupReturnsFirst(t) ==
    call[t].lookupURL # NULL
    => call[t].pszCachedResult =
          IF sessions[call[t].hSession].poDS = NULL THEN NULL
          ELSE BodyOfFirst(stores[Deref(sessions[call[t].hSession].poDS)],
                           call[t].osURL)

\* what a lookup returned once is what the store gives for that URL now
HitsStay ==
    \A t \in Threads : \A h \in prev[t] :
        BodyOfFirst(stores[h.store], h.url) = {h.body}

\* C19: the cache is append-only and a lookup returns the body of the
\* first row whose URL is the one asked for; so a body that a lookup
\* returned for a URL is the body every later lookup of that URL in the
\* same store returns, whatever was inserted in between.
CacheAppendOnlyFirstMatch ==
    /\ [][AppendOnly]_vars
    /\ [](\A t \in Threads : LookupReturnsFirst(t))
    /\ []HitsStay

\* a lookup hits the body that an earlier lookup hit, though a row with
\* the same URL and another body was inserted after that earlier lookup
SameBodyAfterLaterInsert ==
    \E t, u \in Threads : \E h \in prev[t] :
        /\ call[u].lookupURL = {h.url}
        /\ call[u].pszCachedResult = {h.body}
        /\ sessions[call[u].hSession].poDS = {h.store}
        /\ \E j \in (h.nRows + 1)..Len(stores[h.store].rows) :
              /\ stores[h.store].rows[j][1] = h.url
              /\ stores[h.store].rows[j][2] # h.body

-----------------------------------------------------------------------------
(* Duplicate URLs in the cache, under Spec.                                *)

\* the store of the session of the call of t
StoreOf(t) == Deref(sessions[call[t].hSession].poDS)

\* the insert of t that succeeds adds one row, whatever rows there are
InsertAppends(t) ==
    /\ pc[t] = "put"
    /\ pc'[t] # "put"
    /\ call'[t].bPutOK
    => stores'[StoreOf(t)'].rows =
          Append(stores[StoreOf(t)'].rows,
                 <<call[t].osURL, Deref(call[t].pszResult)>>)

\* a fetch that gave a body is followed by an insert when the session
\* writes the cache, whether it reads the cache or not
BodyIsInserted(t) ==
    /\ pc[t] = "fetch"
    /\ pc'[t] # "fetch"
    /\ call'[t].pszResult # NULL
    /\ sessions[call[t].hSession].bWriteCache
    => pc'[t] = "put"

\* the lookup of t gives the body of the first row with its URL
ReaderGetsFirst(t) ==
    /\ pc[t] = "lookup"
    /\ pc'[t] # "lookup"
    => call'[t].pszCachedResult =
          IF sessions'[call[t].hSession].poDS = NULL THEN NULL
          ELSE BodyOfFirst(stores'[StoreOf(t)'], call[t].osURL)

\* C20: an insert does not look for a row with the same URL: each insert
\* that succeeds adds one row, each call whose fetch gave a body inserts
\* it when WRITE_CACHE is on, also with READ_CACHE off, and a lookup gives
\* the first row with the URL.
InsertNeverDeduplicates ==
    [][\A t \in Threads :
          /\ InsertAppends(t)
          /\ BodyIsInserted(t)
          /\ ReaderGetsFirst(t)]_vars

\* both threads looked up the same URL and missed, fetched and inserted:
\* the store holds two rows with that URL
BothMissedAndInserted ==
    /\ \A t \in Threads :
          /\ pc[t] = "done"
          /\ call[t].lookupURL = {call[t].osURL}
          /\ call[t].pszCachedResult = NULL
          /\ call[t].putURL = {call[t].osURL}
          /\ call[t].bPutOK
    /\ call[1].osURL = call[2].osURL
    /\ StoreOf(1) = StoreOf(2)
    /\ Len(RowsFor(stores[StoreOf(1)].rows, call[1].osURL)) = 2

-----------------------------------------------------------------------------
(* What a session keeps, under LayerSpec.                                  *)

\* the fields of a session other than its cache location and its handle
Settings(hS) ==
    [pszGeocodingService |-> hS.pszGeocodingService,
     pszEmail |-> hS.pszEmail,
     pszApplication |-> hS.pszApplication,
     pszQueryTemplate |-> hS.pszQueryTemplate,
     pszExtraQueryParameters |-> hS.pszExtraQueryParameters,
     bReadCache |-> hS.bReadCache,
     bWriteCache |-> hS.bWriteCache,
     dfDelayBetweenQueries |-> hS.dfDelayBetweenQueries]

\* the handle is opened once and then kept
HandleOpenedOnce(s) ==
    sessions[s].poDS # NULL => sessions'[s].poDS = sessions[s].poDS

\* C21, as stated: nothing of a session changes but its handle, which
\* goes once from unopened to opened; the cache location stays.
SessionImmutableButHandle ==
    [][\A s \in SessionIds :
          /\ Settings(sessions'[s]) = Settings(sessions[s])
          /\ sessions'[s].pszCacheFilename = sessions[s].pszCacheFilename
          /\ HandleOpenedOnce(s)]_vars

\* the cache location is rewritten while the handle is unopened only: to
\* the default CSV name from the default SQLite name, or to the name in
\* memory of the extension
LocationRewrittenBeforeOpen(s) ==
    sessions'[s].pszCacheFilename # sessions[s].pszCacheFilename
    => /\ sessions[s].poDS = NULL
       /\ \/ /\ sessions[s].pszCacheFilename = DEFAULT_CACHE_SQLITE
             /\ sessions'[s].pszCacheFilename = DEFAULT_CACHE_CSV
          \/ /\ sessions'[s].pszCacheFilename \in
                   {VsiMemName("csv"), VsiMemName("sqlite")}
             /\ Deref(prev'[1]).bCreateIfNecessary

\* C21, amended: the settings of a session never change; the cache
\* location is rewritten by a fallback while the handle is unopened; the
\* handle goes once from unopened to opened, at the location the session
\* then names, and both stay as they are from then on.
SessionSettingsImmutable ==
    [][\A s \in SessionIds :
          /\ Settings(sessions'[s]) = Settings(sessions[s])
          /\ HandleOpenedOnce(s)
          /\ LocationRewrittenBeforeOpen(s)
          /\ sessions'[s].poDS # NULL
               => sessions'[s].poDS = {sessions'[s].pszCacheFilename}]_vars

\* a session created on the default SQLite name now names the location in
\* memory, where nothing could be created: its handle is unopened
LocationRewrittenHandleUnopened ==
    \E s \in SessionIds :
        /\ prev[1] # NULL
        /\ Deref(prev[1]).hSession = s
        /\ sessions[s].pszCacheFilename \in
              {VsiMemName("csv"), VsiMemName("sqlite")}
        /\ sessions[s].poDS = NULL

-----------------------------------------------------------------------------
(* The order in which a datasource is looked for, under LayerSpec.         *)

\* a datasource can be opened at f
Opens(f) == stores[f].exists /\ (CPLGetExtension(f) = "sqlite" => bSQLiteDriver)

\* a datasource can be created at f: a driver for the extension, nothing
\* there yet, and the environment lets it be
Creates(f, bOK) ==
    /\ bOK
    /\ ~stores[f].exists
    /\ CPLGetExtension(f) = "sqlite" => bSQLiteDriver

\* where the third strategy creates: the location, or the default CSV name
\* when the location is the default SQLite name and its driver is missing
CreationTarget(f) ==
    IF f = DEFAULT_CACHE_SQLITE /\ ~bSQLiteDriver THEN DEFAULT_CACHE_CSV
    ELSE f

\* the strategy that gives the datasource of a session with no handle and
\* the location f, 0 when none does
Strategy(f, bCreateIfNecessary, env) ==
    IF Opens(f) THEN 1
    ELSE IF f = DEFAULT_CACHE_SQLITE /\ Opens(DEFAULT_CACHE_CSV) THEN 2
    ELSE IF ~bCreateIfNecessary \/ StartsWithPG(f) THEN 0
    ELSE IF CPLGetExtension(CreationTarget(f)) \notin {"csv", "sqlite"} THEN 0
    ELSE IF CPLGetExtension(CreationTarget(f)) = "sqlite" /\ ~bSQLiteDriver
    THEN 0
    ELSE IF Creates(CreationTarget(f), env.bCreateOK) THEN 3
    ELSE IF Creates(VsiMemName(CPLGetExtension(CreationTarget(f))),
                    env.bMemOK) THEN 4
    ELSE 0

\* where the datasource of each strategy is
StrategyLocation(f, n) ==
    CASE n = 1 -> f
      [] n = 2 -> DEFAULT_CACHE_CSV
      [] n = 3 -> CreationTarget(f)
      [] n = 4 -> VsiMemName(CPLGetExtension(CreationTarget(f)))

\* the last call of OGRGeocodeGetCacheLayer() was made on session s with
\* no handle: the handle it leaves is the one of the first strategy that
\* succeeds, a datasource appears there and nowhere else, and only by the
\* strategies that create; no strategy, no handle and no layer
FirstStrategyWins(s, op) ==
    LET f == sessions[s].pszCacheFilename
        n == Strategy(f, op.bCreateIfNecessary, op.env)
    IN  /\ n = 0 => /\ sessions'[s].poDS = NULL
                    /\ op.poLayer = NULL
                    /\ stores' = stores
        /\ n # 0 => /\ sessions'[s].poDS = {StrategyLocation(f, n)}
                    /\ stores'[StrategyLocation(f, n)].exists
                    /\ \A l \in Locations \ {StrategyLocation(f, n)} :
                          stores'[l] = stores[l]
        /\ n \in {1, 2} => \A l \in Locations :
                              stores'[l].exists = stores[l].exists

\* a call for a lookup creates neither a datasource nor the layer
LookupCreatesNothing(op) ==
    ~op.bCreateIfNecessary => stores' = stores

\* C22: with no handle open, the datasource is looked for by opening the
\* location, then (default SQLite name only) the default CSV name, then,
\* for an insert and not on a PG: location, by creating at the location
\* (the default CSV name when the SQLite driver is missing) and last in
\* memory; the first that succeeds is taken, a lookup creates nothing, and
\* if none succeeds the handle stays unopened and no layer is returned.
AcquisitionTriesStrategiesInOrder ==
    [][nCalls' # nCalls
       => LET op == Deref(prev'[1])
          IN  /\ LookupCreatesNothing(op)
              /\ sessions[op.hSession].poDS = NULL
                   => FirstStrategyWins(op.hSession, op)]_vars

\* a session on the default SQLite name got its datasource in memory as
\* a CSV file: no SQLite driver, and the default CSV file not created
DatasourceInMemoryAfterOthersFailed ==
    /\ prev[1] # NULL
    /\ ~bSQLiteDriver
    /\ ~Deref(prev[1]).env.bCreateOK
    /\ Deref(prev[1]).poLayer = {VsiMemName("csv")}
    /\ sessions[Deref(prev[1]).hSession].poDS = {VsiMemName("csv")}
    /\ ~stores[DEFAULT_CACHE_CSV].exists
    /\ ~stores["my.csv"].exists

-----------------------------------------------------------------------------
(* The fields of the decoded record set, under DecodeSpec.                 *)

\* the names of the children of the places, in document order
RECURSIVE ChildNames(_, _)
ChildNames(places, k) ==
    IF k > Len(places) THEN <<>>
    ELSE [i \in 1..Len(places[k].psChild) |-> places[k].psChild[i].pszValue]
            \o ChildNames(places, k + 1)

\* a sequence without the elements that occurred before in it
FirstOccurrences(names) ==
    SelectSeq([i \in 1..Len(names) |->
                  IF \E j \in 1..(i - 1) : names[j] = names[i]
                  THEN "" ELSE names[i]],
              LAMBDA n : n # "")

\* the field names the places call for
FieldNamesOf(psRoot) ==
    SelectSeq(FirstOccurrences(ChildNames(PlacesOf(psRoot), 1)),
              LAMBDA n : n # "geotext")

\* the type a field of that name has
TypeOfName(pszName) ==
    CASE pszName = "place_rank" -> "OFTInteger"
      [] pszName = "lat"        -> "OFTReal"
      [] pszName = "lon"        -> "OFTReal"
      [] OTHER                  -> "OFTString"

\* C23: the fields of the decoded record set are the distinct names of the
\* children of its places other than geotext, each once and in the order
\* of first occurrence; place_rank is an integer, lat and lon are reals,
\* the others strings, whatever record brought the field in; and a record
\* has a field set exactly when its place has that child with a text.
SchemaIsFirstOccurrences ==
    Decoded =>
        LET places   == PlacesOf(decRoot)
            poFDefn  == Deref(Deref(decLayer)).poFDefn
            features == Deref(Deref(decLayer)).features
            names    == FieldNamesOf(decRoot)
        IN  /\ Len(poFDefn) = Len(names)
            /\ \A i \in 1..Len(names) :
                  /\ poFDefn[i].name = names[i]
                  /\ poFDefn[i].type = TypeOfName(names[i])
            /\ \A i \in 1..Len(poFDefn) : poFDefn[i].name # "geotext"
            /\ Len(features) = Len(places)
            /\ \A k \in 1..Len(places) :
                  DOMAIN features[k].fields =
                     {names[i] : i \in {j \in 1..Len(names) :
                                           HasValue(places[k], names[j])}}

\* four fields of the three types, brought in by two places, the first of
\* which has an empty child and lacks the fields of the second
FourFieldsFromTwoPlaces ==
    /\ Decoded
    /\ Deref(Deref(decLayer)).poFDefn =
          <<[name |-> "lon", type |-> "OFTReal"],
            [name |-> "lat", type |-> "OFTReal"],
            [name |-> "display_name", type |-> "OFTString"],
            [name |-> "place_rank", type |-> "OFTInteger"]>>
    /\ DOMAIN Deref(Deref(decLayer)).features[1].fields = {"lat"}
    /\ Len(Deref(Deref(decLayer)).features) = 3
    /\ \E k \in {2, 3} :
          Deref(Deref(decLayer)).features[k].fields =
             [n \in {"lat", "lon"} |-> IF n = "lat" THEN 1 ELSE 2]

-----------------------------------------------------------------------------
(* Every call returns, under LiveSpec.                                     *)

\* a thread holds the mutex between the steps of the model only inside
\* the rate-limited section: never where it is about to take it
MutexHeldInSectionOnly ==
    \A t \in Threads :
        hMutex = {t} <=> (pc[t] \in {"sleep", "fetch"} /\ call[t].bLocked)

\* the mutex is held by a thread or by none
MutexHolderIsThread == hMutex = NULL \/ \E t \in Threads : hMutex = {t}

\* C24: every call of OGRGeocode() returns in the end, when fetches and
\* sleeps end and the scheduling is fair: the mutex is not held by a
\* thread that waits for it, it is released on every way out of the
\* lookup, of the insert and of the rate-limited section, and no thread
\* waits for it for ever.
EveryCallReturns ==
    /\ []MutexHeldInSectionOnly
    /\ []MutexHolderIsThread
    /\ \A t \in Threads : (pc[t] # "idle") ~> (pc[t] = "idle")

\* a thread waits for the mutex to insert while the other sleeps in the
\* rate-limited section
InsertWaitsForSleeper ==
    \E t, u \in Threads :
        /\ pc[t] = "put"
        /\ pc[u] = "sleep"
        /\ hMutex = {u}


-----------------------------------------------------------------------------
(* Bodies that do not decode, in the cache, under Spec.                    *)

\* lines 455-463: the decoder gives no layer for the body
Rejected(pszContent) ==
    OGRGeocodeBuildLayer(CPLParseXMLString(pszContent)) = NULL

\* a fetched body goes to the insert when the session writes the cache,
\* whether it decodes or not
FetchedBodyGoesToInsert(t) ==
    /\ pc[t] = "fetch"
    /\ pc'[t] # "fetch"
    /\ call'[t].pszResult # NULL
    => pc'[t] = IF sessions[call[t].hSession].bWriteCache THEN "put"
                ELSE "done"

\* the insert of t adds the fetched body as the last row of the store and
\* the body is decoded after that
InsertThenDecode(t) ==
    /\ pc[t] = "put"
    /\ pc'[t] # "put"
    => /\ call'[t].hLayer =
             OGRGeocodeBuildLayer(CPLParseXMLString(Deref(call[t].pszResult)))
       /\ call'[t].bPutOK
          => stores'[StoreOf(t)'].rows =
                Append(stores[StoreOf(t)'].rows,
                       <<call[t].osURL, Deref(call[t].pszResult)>>)

\* a lookup that finds a body ends the call with what the body decodes
\* to and without a fetch: with no result when the body is rejected
HitIsDecodedNotFetched(t) ==
    /\ pc[t] = "lookup"
    /\ pc'[t] # "lookup"
    /\ call'[t].pszCachedResult # NULL
    => /\ pc'[t] = "done"
       /\ call'[t].fetchURL = NULL
       /\ call'[t].pszResult = NULL
       /\ call'[t].hLayer =
             OGRGeocodeBuildLayer(
                 CPLParseXMLString(Deref(call'[t].pszCachedResult)))
       /\ Rejected(Deref(call'[t].pszCachedResult))
          => call'[t].hLayer = NULL

\* the first row of a store for a URL stays the first row for that URL
FirstEntryStays ==
    \A l \in Locations : \A i \in 1..Len(stores[l].rows) :
        BodyOfFirst(stores[l], stores[l].rows[i][1]) # NULL
        => BodyOfFirst(stores'[l], stores[l].rows[i][1]) =
              BodyOfFirst(stores[l], stores[l].rows[i][1])

\* the body that t inserted into a store with no row for its URL is what
\* the store gives for that URL
InsertedFirstIsServed(t) ==
    /\ pc[t] = "done"
    /\ call[t].bPutFirst
    => BodyOfFirst(stores[StoreOf(t)], call[t].osURL) = call[t].pszResult

\* the body that t inserted and the decoder rejects makes the store give
\* a rejected body for that URL
RejectedInsertIsServed(t) ==
    /\ pc[t] = "done"
    /\ call[t].bPutOK
    /\ Rejected(Deref(call[t].pszResult))
    => \E b \in BodyOfFirst(stores[StoreOf(t)], call[t].osURL) : Rejected(b)

=============================================================================
